---- MODULE Spec2Model ----
(***************************************************************************)
(* A model of the UK capital-gains engine of src/src/lib/cgt-engine.js:    *)
(* normalizeTransactions, CGTCalculator.calculate / processSymbol /        *)
(* processDisposal / generateReport and the helpers they call.             *)
(*                                                                         *)
(* Units.  Money is held in pence (an integer), so that round2dp, which    *)
(* the code applies to pounds, is rounding to the nearest integer, halves  *)
(* going up as Math.round does.  Exchange rates are held in hundredths.    *)
(* A Date is the ordinal of its local calendar day (days since            *)
(* 1970-01-01); every Date the three regular expressions of parseDate      *)
(* build is a local midnight.  An instant is measured in hours since the   *)
(* UTC epoch, so that a local midnight can be compared with the UTC        *)
(* midnights of the TAX_YEARS table.  A quantity is a whole number of       *)
(* units, `lot` units making one share: 1 in the runs in whole shares, 200  *)
(* where the quantities have three decimals.  The arithmetic is exact: the  *)
(* model does not represent the binary floating point error of the code's   *)
(* sums.                                                                    *)
(***************************************************************************)
EXTENDS Integers, Sequences, FiniteSets, TLC

VARIABLES
    now,           \* the clock that Date.now() and new Date() read
    prior,         \* the calls of calculateCGT that have returned: argument and result
    zone,          \* the time zone the engine runs in
    lot,           \* the quantities are whole numbers of units, `lot` units to a share
    raw,           \* rawTransactions, the argument of calculate
    txns,          \* normalizeTransactions(raw); remainingQty is updated in place
    symQueue,      \* Object.keys(bySymbol) still to be processed
    pools,         \* this.section104Pools
    acquisitions,  \* this.acquisitions
    disposals,     \* this.disposals
    errors,        \* this.errors
    pc,            \* position in calculate / processSymbol / processDisposal
    cur,           \* locals of the processDisposal / processSymbol call in progress
    report         \* the value generateReport returned

vars == <<now, prior, zone, lot, raw, txns, symQueue, pools, acquisitions, disposals, errors, pc, cur, report>>

-----------------------------------------------------------------------------
(* Bounds of the model *)

\* the longest list of transactions given to calculate
MaxTxns == 3

\* the longest list given to calculate in the runs over the tax-year labels
MaxLabelTxns == 2

\* the longest list given to calculate in the runs over raw records of every shape
MaxInputTxns == 3

\* the longest list given to calculate in the runs over the year-end snapshots
MaxSnapTxns == 3

\* the longest list given to calculateCGT in the runs of several calls
MaxCallTxns == 3

\* the number of calls of calculateCGT in the runs of several calls
MaxCalls == 2

\* the last reading of the clock (it starts at 0)
MaxClock == 1

-----------------------------------------------------------------------------
(* Generic helpers *)

Min(a, b) == IF a <= b THEN a ELSE b

Max(a, b) == IF a >= b THEN a ELSE b

Abs(a) == IF a < 0 THEN 0 - a ELSE a

RECURSIVE SumSeq(_)
\* the sum of a sequence of integers, as Array.prototype.reduce((sum, x) => sum + x, 0)
SumSeq(s) == IF s = <<>> THEN 0 ELSE Head(s) + SumSeq(Tail(s))

\* the set of the elements of a sequence
Range(s) == {s[i] : i \in DOMAIN s}

\* the indices of s, ascending, whose element passes test, a Boolean-valued
\* function on the elements of s (the callback of Array.prototype.filter)
SelectIdx(s, test) ==
    LET RECURSIVE Go(_)
        Go(i) == IF i > Len(s) THEN <<>>
                 ELSE IF test[s[i]] THEN <<i>> \o Go(i + 1) ELSE Go(i + 1)
    IN Go(1)

\* Math.round(n / d): the nearest integer, a half going towards +infinity
RoundDiv(n, d) ==
    LET n1 == IF d > 0 THEN n ELSE 0 - n
        d1 == IF d > 0 THEN d ELSE 0 - d
        q  == n1 \div d1
        r  == n1 - q * d1
    IN q + (IF 2 * r >= d1 THEN 1 ELSE 0)

-----------------------------------------------------------------------------
(* The JavaScript Date operations the engine uses *)

\* days since 1970-01-01 of day d of the month mp months after March of the
\* year y2 that starts in March
DaysFromShifted(y2, mp, d) ==
    ((y2 \div 400) * 146097) + ((y2 % 400) * 365) + ((y2 % 400) \div 4)
        - ((y2 % 400) \div 100) + ((153 * mp + 2) \div 5) + d - 1 - 719468

\* days since 1970-01-01 of the proleptic Gregorian date y-m-d (1 <= m <= 12)
DaysFromCivil(y, m, d) == DaysFromShifted(IF m <= 2 THEN y - 1 ELSE y, (m + 9) % 12, d)

\* <<year, month (1..12), day>> from the year that starts in March, the day of
\* that year and its month after March
CivilFromMp(y, doy, mp) ==
    <<y + (IF mp < 10 THEN 0 ELSE 1), IF mp < 10 THEN mp + 3 ELSE mp - 9,
      doy - ((153 * mp + 2) \div 5) + 1>>

CivilFromDoy(y, doy) == CivilFromMp(y, doy, (5 * doy + 2) \div 153)

CivilFromYoe(era, doe, yoe) ==
    CivilFromDoy(yoe + era * 400, doe - (365 * yoe + (yoe \div 4) - (yoe \div 100)))

CivilFromDoe(era, doe) ==
    CivilFromYoe(era, doe,
                 (doe - (doe \div 1460) + (doe \div 36524) - (doe \div 146096)) \div 365)

\* <<year, month (1..12), day>> of a day ordinal
CivilFromDays(z) == CivilFromDoe((z + 719468) \div 146097, (z + 719468) % 146097)

\* new Date(year, monthIndex, day): months and days out of range roll over,
\* and a year 0..99 means 1900 + year
NewDateLocal(year, monthIndex, day) ==
    LET y0 == IF year >= 0 /\ year <= 99 THEN 1900 + year ELSE year
        y1 == y0 + monthIndex \div 12
        m1 == (monthIndex % 12) + 1
    IN DaysFromCivil(y1, m1, 1) + day - 1

getFullYear(date) == CivilFromDays(date)[1]

getMonth(date) == CivilFromDays(date)[2] - 1

getDate(date) == CivilFromDays(date)[3]

\* day of the week of a day ordinal, 0 = Sunday (1970-01-01 was a Thursday)
Weekday(z) == (z + 4) % 7

\* the ordinal of the last Sunday on or before day z
SundayOnOrBefore(z) == z - Weekday(z)

\* hours east of UTC of local midnight of day `date` of year y in zone z.
\* London and Paris keep summer time from the last Sunday of March to the last
\* Sunday of October, New York from the second Sunday of March to the first
\* Sunday of November; all change after midnight, so the midnight of the
\* changing day keeps the old offset.
TzOffsetInYear(z, date, y) ==
    CASE z = "Europe/London" ->
           IF /\ date > SundayOnOrBefore(DaysFromCivil(y, 3, 31))
              /\ date <= SundayOnOrBefore(DaysFromCivil(y, 10, 31))
           THEN 1 ELSE 0
      [] z = "Europe/Paris" ->
           IF /\ date > SundayOnOrBefore(DaysFromCivil(y, 3, 31))
              /\ date <= SundayOnOrBefore(DaysFromCivil(y, 10, 31))
           THEN 2 ELSE 1
      [] z = "America/New_York" ->
           IF /\ date > SundayOnOrBefore(DaysFromCivil(y, 3, 14))
              /\ date <= SundayOnOrBefore(DaysFromCivil(y, 11, 7))
           THEN 0 - 4 ELSE 0 - 5
      [] OTHER -> 0

TzOffset(z, date) == TzOffsetInYear(z, date, getFullYear(date))

\* date.getTime() of a local midnight, in hours since the UTC epoch
getTime(date) == date * 24 - TzOffset(zone, date)

\* new Date("YYYY-MM-DD"): midnight UTC, in hours since the epoch
UTCMidnight(y, m, d) == DaysFromCivil(y, m, d) * 24

\* A date string is modelled by its shape and its three numeric fields:
\*   iso   "a-b-c"  = YYYY-MM-DD      slash "a/b/c" = ?/?/YYYY
\*   dash  "a-b-c"  = DD-MM-YYYY      none  null, "", or text no rule reads
DateStr(fmt, a, b, c) == [fmt |-> fmt, a |-> a, b |-> b, c |-> c]

NoDate == <<>>

\* formatDateLocal: the YYYY-MM-DD string of the local calendar day
formatDateLocal(date) ==
    DateStr("iso", getFullYear(date), getMonth(date) + 1, getDate(date))

\* parseDate reading an ambiguous slash date day first.  C16_DateFormats does
\* not hold of it.
parseDate_DayFirst(s) ==
    CASE s.fmt = "iso"   -> <<NewDateLocal(s.a, s.b - 1, s.c)>>
      [] s.fmt = "slash" -> IF s.a > 12 THEN <<NewDateLocal(s.c, s.b - 1, s.a)>>
                            ELSE IF s.b > 12 THEN <<NewDateLocal(s.c, s.a - 1, s.b)>>
                            ELSE <<NewDateLocal(s.c, s.b - 1, s.a)>>
      [] s.fmt = "dash"  -> <<NewDateLocal(s.c, s.b - 1, s.a)>>
      [] OTHER           -> NoDate

\* parseDate: <<date>> or NoDate (null)
parseDate(s) ==
    CASE s.fmt = "iso"   -> <<NewDateLocal(s.a, s.b - 1, s.c)>>
      [] s.fmt = "slash" -> IF s.a > 12 THEN <<NewDateLocal(s.c, s.b - 1, s.a)>>
                            ELSE IF s.b > 12 THEN <<NewDateLocal(s.c, s.a - 1, s.b)>>
                            ELSE <<NewDateLocal(s.c, s.a - 1, s.b)>>
      [] s.fmt = "dash"  -> <<NewDateLocal(s.c, s.b - 1, s.a)>>
      [] OTHER           -> NoDate

isSameDay(date1, date2) ==
    /\ getFullYear(date1) = getFullYear(date2)
    /\ getMonth(date1) = getMonth(date2)
    /\ getDate(date1) = getDate(date2)

\* getDaysDifference with Math.floor in place of Math.round: a difference of
\* 30 days across the start of summer time (30 days less one hour) becomes 29.
\* C5_BedAndBreakfast does not hold of it.
getDaysDifference_Floor(date1, date2) == (getTime(date2) - getTime(date1)) \div 24

\* Math.round((date2 - date1) / one day); the instants are in hours
getDaysDifference(date1, date2) == RoundDiv(getTime(date2) - getTime(date1), 24)

\* the comparison date1 < date2 of two Date objects (by their instants)
DateLess(date1, date2) == getTime(date1) < getTime(date2)

-----------------------------------------------------------------------------
(* Values of the fields of a raw record *)

Num(n) == [k |-> "num", v |-> n]

Null == [k |-> "null", v |-> 0]

NaN == [k |-> "nan", v |-> 0]

\* parseFloat(x) || dflt : a number, dflt when x is not numeric or is 0
ParseFloatOr(x, dflt) == IF x.k = "num" /\ x.v # 0 THEN x.v ELSE dflt

\* The type and the symbol of a raw record are strings.  Two reserved values
\* stand for what is not a string: the field the record does not have
\* (undefined) and a number (a numeric cell of a spreadsheet).
Undefined == "(undefined)"

NotAString == "(number)"

\* x.toUpperCase() throws a TypeError: x is undefined, or has no such method
ToUpperCaseThrows(x) == x \in {Undefined, NotAString}

\* String.prototype.toUpperCase on the type strings of the model
TypeToUpperCase(s) ==
    CASE s = "buy" -> "BUY" [] s = "sell" -> "SELL" [] s = "Buy" -> "BUY"
      [] s = "Sell" -> "SELL" [] OTHER -> s

\* toUpperCase().trim() on the symbol strings of the model
SymbolNormal(s) ==
    CASE s = "xyz" -> "XYZ" [] s = " XYZ " -> "XYZ" [] s = "abc" -> "ABC"
      [] s = " ABC " -> "ABC" [] OTHER -> s

round2dpDiv(n, d) == RoundDiv(n, d)

\* round2dp(amount / quantity): an amount in pence per share, the quantity
\* being in units
PerShare(amount, quantity) == round2dpDiv(amount * lot, quantity)

\* round2dp(quantity): a quantity rounded to the hundredth of a share, in
\* units.  A whole number of hundredths is a whole number of units when lot
\* divides 100 (nothing is rounded) or is a multiple of 100.
round2dpQty(quantity) ==
    IF 100 % lot = 0 THEN quantity ELSE RoundDiv(quantity * 100, lot) * (lot \div 100)

\* `txn-${index}-${Date.now()}`
TxnId(index, at) == [index |-> index, at |-> at]

\* the map callback that keeps the sign of the quantity: a record with a
\* negative quantity is then dropped by the filter.  C14_DroppedRecords does not
\* hold of it.
NormalizeOne_SignedQuantity(t, index) ==
    LET parsedDate == parseDate(t.date)
    IN IF parsedDate = NoDate THEN <<>>
       ELSE <<[id           |-> TxnId(index, now),
               date         |-> parsedDate[1],
               type         |-> TypeToUpperCase(t.type),
               symbol       |-> SymbolNormal(t.symbol),
               broker       |-> t.broker,
               quantity     |-> ParseFloatOr(t.quantity, 0),
               pricePerUnit |-> ParseFloatOr(t.pricePerUnit, 0),
               totalAmount  |-> IF t.totalAmount.k # "null"
                                THEN (IF t.totalAmount.k = "num" THEN t.totalAmount ELSE NaN)
                                ELSE Null,
               fees         |-> ParseFloatOr(t.fees, 0),
               exchangeRate |-> ParseFloatOr(t.exchangeRate, 100),
               remainingQty |-> ParseFloatOr(t.quantity, 0)]>>

\* normalizeTransactions, the map callback: <<record>> or <<>> (null)
NormalizeOne(t, index) ==
    LET parsedDate == parseDate(t.date)
    IN IF parsedDate = NoDate THEN <<>>
       ELSE <<[id           |-> TxnId(index, now),
               date         |-> parsedDate[1],
               type         |-> TypeToUpperCase(t.type),
               symbol       |-> SymbolNormal(t.symbol),
               broker       |-> t.broker,
               quantity     |-> Abs(ParseFloatOr(t.quantity, 0)),
               pricePerUnit |-> ParseFloatOr(t.pricePerUnit, 0),
               totalAmount  |-> IF t.totalAmount.k # "null"
                                THEN (IF t.totalAmount.k = "num" THEN t.totalAmount ELSE NaN)
                                ELSE Null,
               fees         |-> ParseFloatOr(t.fees, 0),
               exchangeRate |-> ParseFloatOr(t.exchangeRate, 100),
               remainingQty |-> Abs(ParseFloatOr(t.quantity, 0))]>>

\* the sort that puts a record before the records of its date that came before
\* it.  C15_StableDateOrder does not hold of it.
SortByDate_Unstable(s) ==
    LET RECURSIVE Insert(_, _)
        Insert(x, sorted) ==
            IF sorted = <<>> THEN <<x>>
            ELSE IF getTime(sorted[Len(sorted)].date) - getTime(x.date) < 0
                 THEN Append(sorted, x)
                 ELSE Append(Insert(x, SubSeq(sorted, 1, Len(sorted) - 1)),
                             sorted[Len(sorted)])
        RECURSIVE Go(_, _)
        Go(i, sorted) == IF i > Len(s) THEN sorted ELSE Go(i + 1, Insert(s[i], sorted))
    IN Go(1, <<>>)

\* Array.prototype.sort((a, b) => a.date.getTime() - b.date.getTime()): a stable
\* sort, here by insertion
SortByDate(s) ==
    LET RECURSIVE Insert(_, _)
        Insert(x, sorted) ==
            IF sorted = <<>> THEN <<x>>
            ELSE IF getTime(sorted[Len(sorted)].date) - getTime(x.date) <= 0
                 THEN Append(sorted, x)
                 ELSE Append(Insert(x, SubSeq(sorted, 1, Len(sorted) - 1)),
                             sorted[Len(sorted)])
        RECURSIVE Go(_, _)
        Go(i, sorted) == IF i > Len(s) THEN sorted ELSE Go(i + 1, Insert(s[i], sorted))
    IN Go(1, <<>>)

\* the elements of s at the indices idx, in that order
Pick(s, idx) == [j \in 1..Len(idx) |-> s[idx[j]]]

\* .filter((t) => t !== null && t.quantity > 0), on the results of the map
KeepValid(mapped) ==
    Pick(mapped, SelectIdx(mapped, [m \in Range(mapped) |-> m # <<>> /\ m[1].quantity > 0]))

\* the records held by a list of non-null results
Unwrap(s) == [j \in 1..Len(s) |-> s[j][1]]

\* the map callback of normalizeTransactions throws on some record: one whose
\* date parses (the callback has not returned null) and whose type or symbol
\* has no toUpperCase
NormalizeThrows(transactions) ==
    \E i \in 1..Len(transactions) :
        /\ parseDate(transactions[i].date) # NoDate
        /\ ToUpperCaseThrows(transactions[i].type) \/ ToUpperCaseThrows(transactions[i].symbol)

normalizeTransactions(transactions) ==
    SortByDate(Unwrap(KeepValid(
        [i \in 1..Len(transactions) |-> NormalizeOne(transactions[i], i - 1)])))

\* the cost that takes quantity * pricePerUnit whenever the record has a price
\* and the total only without one.  C20_TrancheCost does not hold of it.
calculateCost_PriceFirst(transaction, quantity) ==
    LET base == IF transaction.pricePerUnit = 0 /\ transaction.totalAmount.k # "null"
                THEN transaction.totalAmount.v * quantity * lot
                ELSE quantity * transaction.pricePerUnit * transaction.quantity
    IN round2dpDiv((base + transaction.fees * quantity * lot) * 100,
                   transaction.quantity * transaction.exchangeRate * lot)

\* calculateCost(transaction, quantity), in pence; the quantities are in units
\* and pricePerUnit is the price of a share, so that quantity * pricePerUnit
\* is divided by lot
calculateCost(transaction, quantity) ==
    LET base == IF transaction.totalAmount.k # "null"
                THEN transaction.totalAmount.v * quantity * lot
                ELSE quantity * transaction.pricePerUnit * transaction.quantity
    IN round2dpDiv((base + transaction.fees * quantity * lot) * 100,
                   transaction.quantity * transaction.exchangeRate * lot)

\* the proceeds to which the fees are added, as they are to a cost.
\* C28_NetProceeds does not hold of it.
calculateProceeds_PlusFees(transaction, quantity) ==
    LET base == IF transaction.totalAmount.k # "null"
                THEN transaction.totalAmount.v * quantity * lot
                ELSE quantity * transaction.pricePerUnit * transaction.quantity
    IN round2dpDiv((base + transaction.fees * quantity * lot) * 100,
                   transaction.quantity * transaction.exchangeRate * lot)

\* calculateProceeds(transaction, quantity), in pence
calculateProceeds(transaction, quantity) ==
    LET base == IF transaction.totalAmount.k # "null"
                THEN transaction.totalAmount.v * quantity * lot
                ELSE quantity * transaction.pricePerUnit * transaction.quantity
    IN round2dpDiv((base - transaction.fees * quantity * lot) * 100,
                   transaction.quantity * transaction.exchangeRate * lot)

-----------------------------------------------------------------------------
(* TAX_YEARS and getTaxYear *)

\* A tax-year label "Y/YY" is held as <<Y, YY>>, e.g. "2024/25" = <<2024, 25>>.
\* Amounts are in pence, rates in percent; a field the entry does not have is 0
\* (the code reads them with ||, which treats undefined and 0 alike), and
\* rateChangeDate is <<>> when absent.
TaxYearEntry(y, exemption, basic, higher, hasChange) ==
    [year                |-> <<y, (y + 1) % 100>>,
     start               |-> UTCMidnight(y, 4, 6),
     end                 |-> UTCMidnight(y + 1, 4, 5),
     annualExemption     |-> exemption,
     rateChangeDate      |-> IF hasChange THEN <<UTCMidnight(2024, 10, 30)>> ELSE <<>>,
     basicRateSharesPre  |-> IF hasChange THEN 10 ELSE 0,
     higherRateSharesPre |-> IF hasChange THEN 20 ELSE 0,
     basicRateSharesPost |-> IF hasChange THEN 18 ELSE 0,
     higherRateSharesPost |-> IF hasChange THEN 24 ELSE 0,
     basicRateShares     |-> basic,
     higherRateShares    |-> higher]

TAX_YEARS ==
    << TaxYearEntry(2025, 300000, 10, 20, FALSE),
       TaxYearEntry(2024, 300000, 18, 24, TRUE),
       TaxYearEntry(2023, 600000, 10, 20, FALSE),
       TaxYearEntry(2022, 1230000, 10, 20, FALSE),
       TaxYearEntry(2021, 1230000, 10, 20, FALSE),
       TaxYearEntry(2020, 1230000, 10, 20, FALSE),
       TaxYearEntry(2019, 1200000, 10, 20, FALSE),
       TaxYearEntry(2018, 1170000, 10, 20, FALSE),
       TaxYearEntry(2017, 1130000, 10, 20, FALSE) >>

\* the entries of a table with a label
EntriesOfLabel(table, label) ==
    Pick(table, SelectIdx(table, [c \in Range(table) |-> c.year = label]))

\* TAX_YEARS[label]: <<entry>>, or <<>> for undefined
TaxYearConfig(label) == EntriesOfLabel(TAX_YEARS, label)

\* the entries of a table, in its order, whose [start, end] holds the instant t
EntriesHolding(table, t) ==
    Pick(table, SelectIdx(table, [c \in Range(table) |-> t >= c.start /\ t <= c.end]))

\* the entries of TAX_YEARS, in its order, that hold the instant of date; the
\* loop of getTaxYear returns the first
TaxYearTableHit(date) == EntriesHolding(TAX_YEARS, getTime(date))

\* the start year that puts the whole of April in the earlier tax year.
\* C9_TaxYearLabel does not hold of it.
DynamicTaxYearStart_WholeApril(date) ==
    LET year == getFullYear(date)
        month == getMonth(date)
    IN IF month <= 3 THEN year - 1 ELSE year

\* the start year getTaxYear derives for a date outside the table
DynamicTaxYearStart(date) ==
    LET year == getFullYear(date)
        month == getMonth(date)
        day == getDate(date)
    IN IF month < 3 \/ (month = 3 /\ day < 6) THEN year - 1 ELSE year

\* the entry getTaxYear returns for a date outside the table
DynamicTaxYear(taxYearStart) ==
    [TaxYearEntry(taxYearStart, 1130000, 10, 20, FALSE)
       EXCEPT !.year = <<taxYearStart, (taxYearStart + 1) % 100>>]

\* getTaxYear, given the entries of the table that hold the date
TaxYearFrom(hit, date) ==
    IF hit # <<>> THEN hit[1] ELSE DynamicTaxYear(DynamicTaxYearStart(date))

getTaxYear(date) == TaxYearFrom(TaxYearTableHit(date), date)

-----------------------------------------------------------------------------
(* processSymbol and processDisposal *)

\* indices into txns of the symbol's transactions of one type, in txns order
\* (bySymbol[symbol].filter(t => t.type === type))
OfType(ts, symbol, type) ==
    SelectIdx(ts, [t \in Range(ts) |-> t.symbol = symbol /\ t.type = type])

\* the locals of the call in progress
Idle ==
    [symbol |-> "", buys |-> <<>>, sells |-> <<>>, remainingQty |-> 0, proceeds |-> 0,
     totalCost |-> 0, matchDetails |-> <<>>, k |-> 1]

\* an entry of matchDetails; a field the rule does not set is 0 / NoDate
MatchDetail(rule, quantity, cost, costPerShare, proceedsPerShare, acquisitionDate, daysDifference, s104AvgCost, poolQuantityBefore, poolQuantityAfter) ==
    [rule |-> rule, quantity |-> quantity, cost |-> cost, costPerShare |-> costPerShare,
     proceedsPerShare |-> proceedsPerShare,
     gainPerShare |-> proceedsPerShare - costPerShare,
     acquisitionDate |-> acquisitionDate, daysDifference |-> daysDifference,
     s104CostPerShareWouldBe |-> s104AvgCost,
     costDifference |-> IF rule = "BED_AND_BREAKFAST" THEN costPerShare - s104AvgCost ELSE 0,
     averageCost |-> IF rule = "SECTION_104" THEN costPerShare ELSE 0,
     poolQuantityBefore |-> poolQuantityBefore, poolQuantityAfter |-> poolQuantityAfter]

\* buys.filter(b => isSameDay(b.date, disposal.date) && b.remainingQty > 0)
SameDayBuys(ts, buys, disposal) ==
    Pick(buys, SelectIdx(buys, [i \in Range(buys) |-> isSameDay(ts[i].date, disposal.date)
                                                    /\ ts[i].remainingQty > 0]))

\* the bed-and-breakfast test with daysDiff < 30: the acquisition of the 30th
\* day is left for the pool.  C3_RulePrecedence does not hold of it.
IsBnbCandidate_Under30(b, disposal) ==
    LET daysDiff == getDaysDifference(disposal.date, b.date)
    IN daysDiff > 0 /\ daysDiff < 30 /\ b.remainingQty > 0

\* the bed-and-breakfast test of the filter callback
IsBnbCandidate(b, disposal) ==
    LET daysDiff == getDaysDifference(disposal.date, b.date)
    IN daysDiff > 0 /\ daysDiff <= 30 /\ b.remainingQty > 0

\* the buys of the indices idxs as the records [date, idx] the sort compares
DatedIdx(ts, idxs) == [j \in 1..Len(idxs) |-> [date |-> ts[idxs[j]].date, idx |-> idxs[j]]]

IdxOf(s) == [j \in 1..Len(s) |-> s[j].idx]

\* buys.filter(...).sort(by date): the candidates in ascending date order
BnbBuys(ts, buys, disposal) ==
    IdxOf(SortByDate(DatedIdx(ts,
        Pick(buys, SelectIdx(buys, [i \in Range(buys) |-> IsBnbCandidate(ts[i], disposal)])))))

\* the filter without the date test: every acquisition with shares left goes
\* into the pool.  C24_PoolHoldsEarlierShares does not hold of it.
EarlierBuys_AnyDate(ts, buys, disposal) ==
    Pick(buys, SelectIdx(buys, [i \in Range(buys) |-> ts[i].remainingQty > 0]))

\* buys.filter(b => b.date < disposal.date && b.remainingQty > 0)
EarlierBuys(ts, buys, disposal) ==
    Pick(buys, SelectIdx(buys, [i \in Range(buys) |-> DateLess(ts[i].date, disposal.date)
                                                    /\ ts[i].remainingQty > 0]))

\* pool.quantity > 0 ? round2dp(pool.cost / pool.quantity) : 0
PoolAvgCost(pool) == IF pool.quantity > 0 THEN PerShare(pool.cost, pool.quantity) ELSE 0

\* the turn that leaves buy.remainingQty as it was, so that the shares it has
\* matched can be matched or pooled again.  C27_NoShareUsedTwice does not hold
\* of it.
MatchTurn_KeepsRemaining(st, i, buy, matchQty, matchCost, rule, disposal, proceedsPerShare, pool) ==
    [ts |-> st.ts,
     remainingQty |-> st.remainingQty - matchQty,
     totalCost |-> st.totalCost + matchCost,
     matchDetails |-> Append(st.matchDetails,
         MatchDetail(rule, matchQty, matchCost, PerShare(matchCost, matchQty),
                     proceedsPerShare, formatDateLocal(buy.date),
                     IF rule = "BED_AND_BREAKFAST"
                     THEN getDaysDifference(disposal.date, buy.date) ELSE 0,
                     IF rule = "BED_AND_BREAKFAST" THEN PoolAvgCost(pool) ELSE 0,
                     0, 0))]

\* One turn of the same-day or bed-and-breakfast loop: matchQty shares of the
\* buy at index i are matched at matchCost.  st = [ts, remainingQty, totalCost,
\* matchDetails].
MatchTurn(st, i, buy, matchQty, matchCost, rule, disposal, proceedsPerShare, pool) ==
    [ts |-> [st.ts EXCEPT ![i].remainingQty = @ - matchQty],
     remainingQty |-> st.remainingQty - matchQty,
     totalCost |-> st.totalCost + matchCost,
     matchDetails |-> Append(st.matchDetails,
         MatchDetail(rule, matchQty, matchCost, PerShare(matchCost, matchQty),
                     proceedsPerShare, formatDateLocal(buy.date),
                     IF rule = "BED_AND_BREAKFAST"
                     THEN getDaysDifference(disposal.date, buy.date) ELSE 0,
                     IF rule = "BED_AND_BREAKFAST" THEN PoolAvgCost(pool) ELSE 0,
                     0, 0))]

\* matchQty = Math.min(remainingQty, buy.remainingQty), matchCost =
\* calculateCost(buy, matchQty)
MatchBuy(st, i, buy, matchQty, rule, disposal, proceedsPerShare, pool) ==
    MatchTurn(st, i, buy, matchQty, calculateCost(buy, matchQty), rule, disposal,
              proceedsPerShare, pool)

\* The same-day and the bed-and-breakfast loops: for each buy of idxs in turn,
\* unless remainingQty <= 0 (break), match min(remainingQty, buy.remainingQty)
\* at calculateCost(buy, matchQty).
MatchLoop(st0, idxs, rule, disposal, proceedsPerShare, pool) ==
    LET RECURSIVE Go(_, _)
        Go(st, j) ==
            IF j > Len(idxs) \/ st.remainingQty <= 0 THEN st
            ELSE Go(MatchBuy(st, idxs[j], st.ts[idxs[j]],
                             Min(st.remainingQty, st.ts[idxs[j]].remainingQty),
                             rule, disposal, proceedsPerShare, pool), j + 1)
    IN Go(st0, 1)

\* one pool for all the symbols: the first that was made.  C18_SymbolsIndependent
\* does not hold of it.
PoolIdx_Shared(ps, symbol) == 1

\* index in this.section104Pools (kept in insertion order) of a symbol's pool
PoolIdx(ps, symbol) == SelectIdx(ps, [e \in Range(ps) |-> e.symbol = symbol])[1]

HasPool(ps, symbol) == SelectIdx(ps, [e \in Range(ps) |-> e.symbol = symbol]) # <<>>

\* Object.keys(bySymbol): the symbols in order of first appearance in ts
SymbolOrder(ts) ==
    LET first == SelectIdx(ts, [t \in Range(ts) |-> t = ts[SelectIdx(ts, [u \in Range(ts) |-> u.symbol = t.symbol])[1]]])
    IN [j \in 1..Len(first) |-> ts[first[j]].symbol]

\* the entry processSymbol pushes on this.acquisitions for a buy
AcquisitionEntry(symbol, buy) ==
    LET cost == calculateCost(buy, buy.quantity)
    IN [symbol |-> symbol, date |-> formatDateLocal(buy.date), quantity |-> buy.quantity,
        totalCost |-> cost, costPerShare |-> PerShare(cost, buy.quantity)]

\* the draw that leaves remainingQty as it was: the shares drawn from the pool
\* are reported unmatched as well.  C2_FullAllocation does not hold of it.
PoolDraw_KeepsRemaining(pool, remainingQty, totalCost, matchDetails, proceedsPerShare) ==
    IF pool.quantity > 0
    THEN LET matchQty == Min(remainingQty, pool.quantity)
             matchCost == round2dpDiv(matchQty * pool.cost, pool.quantity)
             costPerShare == PerShare(pool.cost, pool.quantity)
         IN [pool |-> [pool EXCEPT !.quantity = @ - matchQty, !.cost = @ - matchCost],
             remainingQty |-> remainingQty,
             totalCost |-> totalCost + matchCost,
             matchDetails |-> Append(matchDetails,
                 MatchDetail("SECTION_104", matchQty, matchCost, costPerShare,
                             proceedsPerShare, NoDate, 0, 0,
                             round2dpQty(pool.quantity),
                             round2dpQty(pool.quantity - matchQty)))]
    ELSE [pool |-> pool, remainingQty |-> remainingQty, totalCost |-> totalCost,
          matchDetails |-> matchDetails]

\* the draw at matchQty times the rounded average cost, in place of the rounded
\* share of the pool's cost.  C6_Section104 does not hold of it.
PoolDraw_RoundedAverage(pool, remainingQty, totalCost, matchDetails, proceedsPerShare) ==
    IF pool.quantity > 0
    THEN LET matchQty == Min(remainingQty, pool.quantity)
             costPerShare == PerShare(pool.cost, pool.quantity)
             matchCost == matchQty * costPerShare
         IN [pool |-> [pool EXCEPT !.quantity = @ - matchQty, !.cost = @ - matchCost],
             remainingQty |-> remainingQty - matchQty,
             totalCost |-> totalCost + matchCost,
             matchDetails |-> Append(matchDetails,
                 MatchDetail("SECTION_104", matchQty, matchCost, costPerShare,
                             proceedsPerShare, NoDate, 0, 0,
                             round2dpQty(pool.quantity),
                             round2dpQty(pool.quantity - matchQty)))]
    ELSE [pool |-> pool, remainingQty |-> remainingQty, totalCost |-> totalCost,
          matchDetails |-> matchDetails]

\* the Section 104 draw of processDisposal: [pool, remainingQty, totalCost, matchDetails]
\* after `if (pool.quantity > 0) { ... }`
PoolDraw(pool, remainingQty, totalCost, matchDetails, proceedsPerShare) ==
    IF pool.quantity > 0
    THEN LET matchQty == Min(remainingQty, pool.quantity)
             matchCost == round2dpDiv(matchQty * pool.cost, pool.quantity)
             costPerShare == PerShare(pool.cost, pool.quantity)
         IN [pool |-> [pool EXCEPT !.quantity = @ - matchQty, !.cost = @ - matchCost],
             remainingQty |-> remainingQty - matchQty,
             totalCost |-> totalCost + matchCost,
             matchDetails |-> Append(matchDetails,
                 MatchDetail("SECTION_104", matchQty, matchCost, costPerShare,
                             proceedsPerShare, NoDate, 0, 0,
                             round2dpQty(pool.quantity),
                             round2dpQty(pool.quantity - matchQty)))]
    ELSE [pool |-> pool, remainingQty |-> remainingQty, totalCost |-> totalCost,
          matchDetails |-> matchDetails]

\* the diagnostic that reports the whole quantity of the disposal.
\* C7_UnmatchedDisposal does not hold of it.
UnmatchedError_WholeQuantity(symbol, disposal, remainingQty) ==
    [type |-> "UNMATCHED_DISPOSAL", symbol |-> symbol,
     date |-> formatDateLocal(disposal.date), unmatchedQuantity |-> disposal.quantity]

\* the entry processDisposal pushes on this.errors
UnmatchedError(symbol, disposal, remainingQty) ==
    [type |-> "UNMATCHED_DISPOSAL", symbol |-> symbol,
     date |-> formatDateLocal(disposal.date), unmatchedQuantity |-> remainingQty]

\* the disposal entry whose cost is the rounded cost per share times the
\* quantity.  C8_OneDisposalPerSell does not hold of it.
DisposalEntry_PerShareCost(symbol, disposal, proceeds, totalCost, matchDetails) ==
    LET costPerShare == IF disposal.quantity > 0
                        THEN PerShare(totalCost, disposal.quantity) ELSE 0
        cost == costPerShare * disposal.quantity
        gain == proceeds - cost
    IN [id |-> disposal.id, symbol |-> symbol, date |-> formatDateLocal(disposal.date),
        quantity |-> disposal.quantity, proceeds |-> proceeds,
        proceedsPerShare |-> PerShare(proceeds, disposal.quantity),
        cost |-> cost, costPerShare |-> costPerShare,
        gain |-> gain, gainPerShare |-> PerShare(gain, disposal.quantity),
        taxYear |-> getTaxYear(disposal.date).year, matchDetails |-> matchDetails]

\* the entry processDisposal pushes on this.disposals
DisposalEntry(symbol, disposal, proceeds, totalCost, matchDetails) ==
    LET gain == proceeds - totalCost
    IN [id |-> disposal.id, symbol |-> symbol, date |-> formatDateLocal(disposal.date),
        quantity |-> disposal.quantity, proceeds |-> proceeds,
        proceedsPerShare |-> PerShare(proceeds, disposal.quantity),
        cost |-> totalCost,
        costPerShare |-> IF disposal.quantity > 0
                         THEN PerShare(totalCost, disposal.quantity) ELSE 0,
        gain |-> gain, gainPerShare |-> PerShare(gain, disposal.quantity),
        taxYear |-> getTaxYear(disposal.date).year, matchDetails |-> matchDetails]

-----------------------------------------------------------------------------
(* The actions *)

\* calculate: normalize and group by symbol; an exception of
\* normalizeTransactions leaves calculate (and calculateCGT) with no report
\* a calculate whose normalization writes remainingQty into the records it is
\* given instead of building new ones.  C29_InputUntouched does not hold of it.
Calculate_InPlace ==
    /\ pc = "start"
    /\ raw # <<>>
    /\ ~NormalizeThrows(raw)
    /\ raw' = [i \in DOMAIN raw |->
                 raw[i] @@ [remainingQty |-> Abs(ParseFloatOr(raw[i].quantity, 0))]]
    /\ txns' = normalizeTransactions(raw)
    /\ symQueue' = SymbolOrder(txns')
    /\ pc' = IF symQueue' = <<>> THEN "report" ELSE "symbol"
    /\ UNCHANGED <<now, prior, zone, lot, pools, acquisitions, disposals, errors, cur, report>>

Calculate ==
    /\ pc = "start"
    /\ IF NormalizeThrows(raw)
       THEN /\ pc' = "threw"
            /\ UNCHANGED <<txns, symQueue>>
       ELSE /\ txns' = normalizeTransactions(raw)
            /\ symQueue' = SymbolOrder(txns')
            /\ pc' = IF symQueue' = <<>> THEN "report" ELSE "symbol"
    /\ UNCHANGED <<now, prior, zone, lot, raw, pools, acquisitions, disposals, errors, cur, report>>

\* processSymbol up to its first loop over the sells
BeginSymbol ==
    /\ pc = "symbol"
    /\ symQueue # <<>>
    /\ LET symbol == Head(symQueue)
           buys == OfType(txns, symbol, "BUY")
           sells == OfType(txns, symbol, "SELL")
       IN /\ pools' = IF HasPool(pools, symbol) THEN pools
                      ELSE Append(pools, [symbol |-> symbol, quantity |-> 0, cost |-> 0])
          /\ acquisitions' = acquisitions \o
                 [j \in 1..Len(buys) |-> AcquisitionEntry(symbol, txns[buys[j]])]
          /\ cur' = [Idle EXCEPT !.symbol = symbol, !.buys = buys, !.sells = sells]
          /\ pc' = IF sells # <<>> THEN "sameDay" ELSE "endOfStream"
    /\ symQueue' = Tail(symQueue)
    /\ UNCHANGED <<now, prior, zone, lot, raw, txns, disposals, errors, report>>

\* the assignments that follow a matching loop that ended in st
AfterLoop(st, proceeds, next) ==
    /\ txns' = st.ts
    /\ cur' = [cur EXCEPT !.remainingQty = st.remainingQty, !.proceeds = proceeds,
                          !.totalCost = st.totalCost, !.matchDetails = st.matchDetails]
    /\ pc' = IF st.remainingQty > 0 THEN next ELSE "record"

\* processDisposal, entry and rule 1
SameDayRule ==
    /\ pc = "sameDay"
    /\ LET disposal == txns[Head(cur.sells)]
           proceeds == calculateProceeds(disposal, disposal.quantity)
       IN AfterLoop(MatchLoop([ts |-> txns, remainingQty |-> disposal.quantity,
                               totalCost |-> 0, matchDetails |-> <<>>],
                              SameDayBuys(txns, cur.buys, disposal), "SAME_DAY", disposal,
                              PerShare(proceeds, disposal.quantity),
                              pools[PoolIdx(pools, cur.symbol)]),
                    proceeds, "bnb")
    /\ UNCHANGED <<now, prior, zone, lot, raw, symQueue, pools, acquisitions, disposals, errors, report>>

\* processDisposal, rule 2
BedAndBreakfastRule ==
    /\ pc = "bnb"
    /\ LET disposal == txns[Head(cur.sells)]
       IN AfterLoop(MatchLoop([ts |-> txns, remainingQty |-> cur.remainingQty,
                               totalCost |-> cur.totalCost,
                               matchDetails |-> cur.matchDetails],
                              BnbBuys(txns, cur.buys, disposal), "BED_AND_BREAKFAST", disposal,
                              PerShare(cur.proceeds, disposal.quantity),
                              pools[PoolIdx(pools, cur.symbol)]),
                    cur.proceeds, "s104")
    /\ UNCHANGED <<now, prior, zone, lot, raw, symQueue, pools, acquisitions, disposals, errors, report>>

\* one turn of the loop over earlierBuys: the buy at index i goes into pool p
RollInBuy(i, p) ==
    /\ pools' = [pools EXCEPT ![p].quantity = @ + txns[i].remainingQty,
                              ![p].cost = @ + calculateCost(txns[i], txns[i].remainingQty)]
    /\ txns' = [txns EXCEPT ![i].remainingQty = 0]

\* processDisposal, rule 3: one turn of the loop that rolls the earlier buys
\* into the pool
RollIn ==
    /\ pc = "s104"
    /\ LET earlierBuys == EarlierBuys(txns, cur.buys, txns[Head(cur.sells)])
       IN /\ earlierBuys # <<>>
          /\ RollInBuy(earlierBuys[1], PoolIdx(pools, cur.symbol))
    /\ UNCHANGED <<now, prior, zone, lot, raw, symQueue, acquisitions, disposals, errors, pc, cur, report>>

\* processDisposal, rule 3: the draw from the pool once the earlier buys are in
DrawFromPool ==
    /\ pc = "s104"
    /\ LET disposal == txns[Head(cur.sells)]
           p == PoolIdx(pools, cur.symbol)
           d == PoolDraw(pools[p], cur.remainingQty, cur.totalCost, cur.matchDetails,
                         PerShare(cur.proceeds, disposal.quantity))
       IN /\ EarlierBuys(txns, cur.buys, disposal) = <<>>
          /\ pools' = [pools EXCEPT ![p] = d.pool]
          /\ cur' = [cur EXCEPT !.remainingQty = d.remainingQty, !.totalCost = d.totalCost,
                                !.matchDetails = d.matchDetails]
    /\ pc' = "record"
    /\ UNCHANGED <<now, prior, zone, lot, raw, txns, symQueue, acquisitions, disposals, errors, report>>

\* processDisposal, the diagnostic and the disposal record
RecordDisposal ==
    /\ pc = "record"
    /\ LET disposal == txns[Head(cur.sells)]
       IN /\ errors' = IF cur.remainingQty > 0
                       THEN Append(errors, UnmatchedError(cur.symbol, disposal, cur.remainingQty))
                       ELSE errors
          /\ disposals' = Append(disposals, DisposalEntry(cur.symbol, disposal, cur.proceeds,
                                                          cur.totalCost, cur.matchDetails))
    /\ cur' = [cur EXCEPT !.sells = Tail(@), !.remainingQty = 0, !.proceeds = 0,
                          !.totalCost = 0, !.matchDetails = <<>>]
    /\ pc' = IF Tail(cur.sells) # <<>> THEN "sameDay" ELSE "endOfStream"
    /\ UNCHANGED <<now, prior, zone, lot, raw, txns, symQueue, pools, acquisitions, report>>

\* processSymbol, one turn of the closing loop over the buys: a buy with
\* remainingQty > 0 is added to the pool (its remainingQty is left as it is)
EndOfStreamAdd ==
    /\ pc = "endOfStream"
    /\ cur.k <= Len(cur.buys)
    /\ LET buy == txns[cur.buys[cur.k]]
           p == PoolIdx(pools, cur.symbol)
       IN pools' = IF buy.remainingQty > 0
                   THEN [pools EXCEPT ![p].quantity = @ + buy.remainingQty,
                                      ![p].cost = @ + calculateCost(buy, buy.remainingQty)]
                   ELSE pools
    /\ cur' = [cur EXCEPT !.k = @ + 1]
    /\ UNCHANGED <<now, prior, zone, lot, raw, txns, symQueue, acquisitions, disposals, errors, pc, report>>

\* processSymbol returns; calculate goes to the next symbol or to the report
EndSymbol ==
    /\ pc = "endOfStream"
    /\ cur.k > Len(cur.buys)
    /\ cur' = Idle
    /\ pc' = IF symQueue # <<>> THEN "symbol" ELSE "report"
    /\ UNCHANGED <<now, prior, zone, lot, raw, txns, symQueue, pools, acquisitions, disposals, errors, report>>

-----------------------------------------------------------------------------
(* generateReport *)

\* the keys of byTaxYear, in insertion order
TaxYearKeys(ds) ==
    LET first == SelectIdx(ds, [d \in Range(ds) |->
                     d = ds[SelectIdx(ds, [e \in Range(ds) |-> e.taxYear = d.taxYear])[1]]])
    IN [j \in 1..Len(first) |-> ds[first[j]].taxYear]

\* the year entry made anew for every disposal, so that it keeps the last one
\* only.  C22_PureAggregation does not hold of it.
DisposalsOfYear_LastOnly(ds, label) ==
    LET hit == SelectIdx(ds, [d \in Range(ds) |-> d.taxYear = label])
    IN <<ds[hit[Len(hit)]]>>

\* byTaxYear[label].disposals
DisposalsOfYear(ds, label) ==
    Pick(ds, SelectIdx(ds, [d \in Range(ds) |-> d.taxYear = label]))

\* the sum of the gains of the disposals with gain >= 0
GainsOf(ds) == SumSeq([j \in 1..Len(ds) |-> IF ds[j].gain >= 0 THEN ds[j].gain ELSE 0])

\* the sum of the negative gains with their sign.  C10_TaxYearSummary does not
\* hold of it.
LossesOf_Signed(ds) == SumSeq([j \in 1..Len(ds) |-> IF ds[j].gain >= 0 THEN 0 ELSE ds[j].gain])

\* the sum of Math.abs(gain) of the disposals with gain < 0
LossesOf(ds) == SumSeq([j \in 1..Len(ds) |-> IF ds[j].gain >= 0 THEN 0 ELSE Abs(ds[j].gain)])

\* a || b for numbers: b when a is 0 (or undefined, held as 0)
OrElse(a, b) == IF a # 0 THEN a ELSE b

\* parseDate(disposal.date) < rateChangeDate
BeforeRateChange(d, rateChangeDate) == getTime(parseDate(d.date)[1]) < rateChangeDate

\* <<q, r>> with a * b = q * c + r and 0 <= r < c, for a, b >= 0 and c > 0,
\* computed by halving b so that no intermediate product leaves the integers
\* of the checker
RECURSIVE MulDivMod(_, _, _)
MulDivMod(a, b, c) ==
    IF b = 0 THEN <<0, 0>>
    ELSE LET h == MulDivMod(a, b \div 2, c)
             q2 == 2 * h[1] + (2 * h[2]) \div c
             r2 == (2 * h[2]) % c
             r3 == IF b % 2 = 1 THEN r2 + (a % c) ELSE r2
             q3 == IF b % 2 = 1 THEN q2 + (a \div c) ELSE q2
         IN <<q3 + (r3 \div c), r3 % c>>

\* round2dp((part / total) * amount), in pence
exemptionShare(part, total, amount) ==
    LET m == MulDivMod(part, amount, total)
    IN m[1] + (IF 2 * m[2] >= total THEN 1 ELSE 0)

\* yearData.config?.field, a missing config or field being 0
ConfigField(config, field) == IF config # <<>> THEN config[1][field] ELSE 0

\* yearData.config?.rateChangeDate: <<instant>>, or <<>> for undefined
RateChangeOf(config) == IF config # <<>> THEN config[1].rateChangeDate ELSE <<>>

\* the disposals of the year before the rate change date, when the year has one
PreOctober(yd, config) ==
    IF RateChangeOf(config) # <<>>
    THEN Pick(yd, SelectIdx(yd, [d \in Range(yd) |->
                                    BeforeRateChange(d, RateChangeOf(config)[1])]))
    ELSE <<>>

\* the disposals of the year on or after the rate change date
PostOctober(yd, config) ==
    IF RateChangeOf(config) # <<>>
    THEN Pick(yd, SelectIdx(yd, [d \in Range(yd) |->
                                    ~BeforeRateChange(d, RateChangeOf(config)[1])]))
    ELSE <<>>

\* the sums generateReport accumulates for a year
YearTotals(yd, pre, post) ==
    [totalGains |-> GainsOf(yd), totalLosses |-> LossesOf(yd),
     preOctGains |-> GainsOf(pre), preOctLosses |-> LossesOf(pre),
     postOctGains |-> GainsOf(post), postOctLosses |-> LossesOf(post)]

\* the rates and the exempt amount generateReport reads from the config
YearRates(config) ==
    [annualExemption |-> OrElse(ConfigField(config, "annualExemption"), 300000),
     basicRatePre |-> OrElse(ConfigField(config, "basicRateSharesPre"),
                             OrElse(ConfigField(config, "basicRateShares"), 10)),
     higherRatePre |-> OrElse(ConfigField(config, "higherRateSharesPre"),
                              OrElse(ConfigField(config, "higherRateShares"), 20)),
     basicRatePost |-> OrElse(ConfigField(config, "basicRateSharesPost"),
                              OrElse(ConfigField(config, "basicRateShares"), 18)),
     higherRatePost |-> OrElse(ConfigField(config, "higherRateSharesPost"),
                               OrElse(ConfigField(config, "higherRateShares"), 24)),
     basicRate |-> OrElse(ConfigField(config, "basicRateShares"), 10),
     higherRate |-> OrElse(ConfigField(config, "higherRateShares"), 20)]

\* the exemption allocated to the gains of one side of the rate change
AllocatedExemption(gains, totalGainsForAllocation, annualExemption) ==
    IF totalGainsForAllocation > 0
    THEN exemptionShare(gains, totalGainsForAllocation,
                        Min(annualExemption, totalGainsForAllocation))
    ELSE 0

\* the estimated tax at the two rates of a year with a rate change
SplitTax(taxablePreGain, taxablePostGain, ratePre, ratePost) ==
    round2dpDiv(taxablePreGain * ratePre + taxablePostGain * ratePost, 100)

\* the summary, from the taxable amounts
SummaryRecord(label, yd, pre, post, split, t, r, netGain, taxableGain, taxablePreGain, taxablePostGain) ==
    [taxYear |-> label,
     numberOfDisposals |-> Len(yd),
     totalProceeds |-> SumSeq([j \in 1..Len(yd) |-> yd[j].proceeds]),
     totalCost |-> SumSeq([j \in 1..Len(yd) |-> yd[j].cost]),
     totalGains |-> t.totalGains,
     totalLosses |-> t.totalLosses,
     netGain |-> netGain,
     annualExemption |-> r.annualExemption,
     taxableGain |-> taxableGain,
     estimatedTaxBasicRate |->
         IF split /\ (t.preOctGains > 0 \/ t.postOctGains > 0)
         THEN SplitTax(taxablePreGain, taxablePostGain, r.basicRatePre, r.basicRatePost)
         ELSE round2dpDiv(taxableGain * r.basicRate, 100),
     estimatedTaxHigherRate |->
         IF split /\ (t.preOctGains > 0 \/ t.postOctGains > 0)
         THEN SplitTax(taxablePreGain, taxablePostGain, r.higherRatePre, r.higherRatePost)
         ELSE round2dpDiv(taxableGain * r.higherRate, 100),
     disposals |-> yd,
     rateChange |->
         IF split
         THEN <<[preOctober |-> [gains |-> t.preOctGains, losses |-> t.preOctLosses,
                                 netGain |-> t.preOctGains - t.preOctLosses,
                                 basicRate |-> r.basicRatePre, higherRate |-> r.higherRatePre,
                                 disposalCount |-> Len(pre)],
                 postOctober |-> [gains |-> t.postOctGains, losses |-> t.postOctLosses,
                                  netGain |-> t.postOctGains - t.postOctLosses,
                                  basicRate |-> r.basicRatePost,
                                  higherRate |-> r.higherRatePost,
                                  disposalCount |-> Len(post)]]>>
         ELSE <<>>]

\* the summary, from the sums t and the rates r
SummaryOfTotals(label, yd, pre, post, split, t, r) ==
    SummaryRecord(label, yd, pre, post, split, t, r,
        t.totalGains - t.totalLosses,
        Max(0, t.totalGains - t.totalLosses - r.annualExemption),
        Max(0, t.preOctGains - t.preOctLosses
                 - AllocatedExemption(t.preOctGains, t.preOctGains + t.postOctGains,
                                      r.annualExemption)),
        Max(0, t.postOctGains - t.postOctLosses
                 - AllocatedExemption(t.postOctGains, t.preOctGains + t.postOctGains,
                                      r.annualExemption)))

\* the summary, from the disposals of the year and its split at the rate change
SummaryOfSplit(label, yd, config, pre, post) ==
    SummaryOfTotals(label, yd, pre, post, RateChangeOf(config) # <<>>,
                    YearTotals(yd, pre, post), YearRates(config))

\* the summary, from the disposals of the year and its config
SummaryOfYear(label, yd, config) ==
    SummaryOfSplit(label, yd, config, PreOctober(yd, config), PostOctober(yd, config))

\* the summary generateReport builds for one key of byTaxYear
TaxYearSummary(ds, label) ==
    SummaryOfYear(label, DisposalsOfYear(ds, label), TaxYearConfig(label))

\* .sort((a, b) => b.taxYear.localeCompare(a.taxYear)): descending by label
\* (labels of four-digit years compare as their start years do)
SortYearsDesc(s) ==
    LET RECURSIVE Insert(_, _)
        Insert(x, sorted) ==
            IF sorted = <<>> THEN <<x>>
            ELSE IF sorted[Len(sorted)].taxYear[1] >= x.taxYear[1]
                 THEN Append(sorted, x)
                 ELSE Append(Insert(x, SubSeq(sorted, 1, Len(sorted) - 1)),
                             sorted[Len(sorted)])
        RECURSIVE Go(_, _)
        Go(i, sorted) == IF i > Len(s) THEN sorted ELSE Go(i + 1, Insert(s[i], sorted))
    IN Go(1, <<>>)

\* the section104Pools list of the report: the pools with quantity > 0
Section104Summary(ps) ==
    LET hit == SelectIdx(ps, [e \in Range(ps) |-> e.quantity > 0])
    IN [j \in 1..Len(hit) |->
          [symbol |-> ps[hit[j]].symbol, quantity |-> round2dpQty(ps[hit[j]].quantity),
           totalCost |-> ps[hit[j]].cost,
           averageCost |-> PerShare(ps[hit[j]].cost, ps[hit[j]].quantity)]]

\* calculateSection104Snapshots: the events, acquisitions then disposals, sorted
\* by date
SnapshotEvents(acqs, ds) ==
    SortByDate(
        [j \in 1..Len(acqs) |->
            [date |-> parseDate(acqs[j].date)[1], type |-> "ACQ", symbol |-> acqs[j].symbol,
             quantity |-> acqs[j].quantity, cost |-> acqs[j].totalCost]]
        \o [j \in 1..Len(ds) |->
            [date |-> parseDate(ds[j].date)[1], type |-> "DISP", symbol |-> ds[j].symbol,
             quantity |-> ds[j].quantity, cost |-> ds[j].cost]])

\* the body of the loops over allEvents: held is s104AtStart or s104AtEnd, as
\* the list of its entries in insertion order
ApplyEvent(held, event, sign) ==
    IF HasPool(held, event.symbol)
    THEN [held EXCEPT ![PoolIdx(held, event.symbol)].quantity = @ + sign * event.quantity,
                      ![PoolIdx(held, event.symbol)].cost = @ + sign * event.cost]
    ELSE Append(held, [symbol |-> event.symbol, quantity |-> sign * event.quantity,
                       cost |-> sign * event.cost])

\* a loop over allEvents that breaks at the first event for which stop holds
ReplayEvents(events, stop) ==
    LET RECURSIVE Go(_, _)
        Go(i, held) ==
            IF i > Len(events) \/ stop[events[i]] THEN held
            ELSE Go(i + 1, ApplyEvent(held, events[i],
                                      IF events[i].type = "ACQ" THEN 1 ELSE 0 - 1))
    IN Go(1, <<>>)

\* the place of a symbol of the model in the order of localeCompare
SymbolRank(symbol) == CASE symbol = "ABC" -> 1 [] symbol = "XYZ" -> 2 [] OTHER -> 3

\* .sort((a, b) => a.symbol.localeCompare(b.symbol))
SortBySymbol(s) ==
    LET RECURSIVE Insert(_, _)
        Insert(x, sorted) ==
            IF sorted = <<>> THEN <<x>>
            ELSE IF SymbolRank(sorted[Len(sorted)].symbol) <= SymbolRank(x.symbol)
                 THEN Append(sorted, x)
                 ELSE Append(Insert(x, SubSeq(sorted, 1, Len(sorted) - 1)),
                             sorted[Len(sorted)])
        RECURSIVE Go(_, _)
        Go(i, sorted) == IF i > Len(s) THEN sorted ELSE Go(i + 1, Insert(s[i], sorted))
    IN Go(1, <<>>)

\* the array format of a snapshot: the entries with quantity > 0.001, by symbol
SnapshotList(held) ==
    SortBySymbol(Section104Summary(held))

\* calculateSection104Snapshots()[label]: <<[start, end]>>, or <<>> (undefined)
\* for a label that TAX_YEARS does not have
Section104Snapshot(events, config) ==
    IF config = <<>> THEN <<>>
    ELSE <<[start |-> SnapshotList(ReplayEvents(events,
                         [e \in Range(events) |-> getTime(e.date) >= config[1].start])),
            end |-> SnapshotList(ReplayEvents(events,
                         [e \in Range(events) |-> getTime(e.date) > config[1].end]))]>>

\* the summary with section104Start: taxYearSnapshots[year]?.start || [] and
\* section104End
WithSnapshots(summary, snapshot) ==
    [f \in DOMAIN summary \cup {"section104Start", "section104End"} |->
        CASE f = "section104Start" -> IF snapshot = <<>> THEN <<>> ELSE snapshot[1].start
          [] f = "section104End" -> IF snapshot = <<>> THEN <<>> ELSE snapshot[1].end
          [] OTHER -> summary[f]]

NoReport == [generatedAt |-> 0, taxYears |-> <<>>, section104Pools |-> <<>>, allDisposals |-> <<>>,
             acquisitions |-> <<>>, errors |-> <<>>,
             summary |-> [totalDisposals |-> 0, totalSymbolsTraded |-> 0, overallGain |-> 0]]

generateReport(ds, ps, acqs, errs) ==
    LET keys == TaxYearKeys(ds)
    IN [generatedAt |-> now,
        taxYears |-> SortYearsDesc([j \in 1..Len(keys) |->
                        WithSnapshots(TaxYearSummary(ds, keys[j]),
                                      Section104Snapshot(SnapshotEvents(acqs, ds),
                                                         TaxYearConfig(keys[j])))]),
        section104Pools |-> Section104Summary(ps),
        allDisposals |-> ds,
        acquisitions |-> acqs,
        errors |-> errs,
        summary |-> [totalDisposals |-> Len(ds),
                     totalSymbolsTraded |-> Cardinality({ds[j].symbol : j \in 1..Len(ds)}),
                     overallGain |-> SumSeq([j \in 1..Len(ds) |-> ds[j].gain])]]

GenerateReport ==
    /\ pc = "report"
    /\ report' = generateReport(disposals, pools, acquisitions, errors)
    /\ pc' = "done"
    /\ UNCHANGED <<now, prior, zone, lot, raw, txns, symQueue, pools, acquisitions, disposals, errors, cur>>

\* the clock advances; it is read by calculate (the ids) and by generateReport
\* (generatedAt), so it is let advance before each of the two
Tick ==
    /\ pc \in {"start", "report"}
    /\ now < MaxClock
    /\ now' = now + 1
    /\ UNCHANGED <<prior, zone, lot, raw, txns, symQueue, pools, acquisitions, disposals, errors,
                   pc, cur, report>>

\* the records of a raw list that have the symbol, in their order
OnlySymbol(transactions, symbol) ==
    Pick(transactions, SelectIdx(transactions,
        [t \in Range(transactions) |-> SymbolNormal(t.symbol) = symbol]))

\* a second call that finds the pools of the first, as it would were the pools
\* kept outside the calculator.  C30_NothingShared does not hold of it.
CallAgain_KeepsPools ==
    /\ pc = "done"
    /\ Len(prior) + 1 < MaxCalls
    /\ prior' = Append(prior, [raw |-> raw, report |-> report, pools |-> pools])
    /\ raw' \in {raw} \cup {OnlySymbol(raw, SymbolNormal(raw[i].symbol)) : i \in DOMAIN raw}
    /\ txns' = <<>>
    /\ symQueue' = <<>>
    /\ acquisitions' = <<>>
    /\ disposals' = <<>>
    /\ errors' = <<>>
    /\ pc' = "start"
    /\ cur' = Idle
    /\ report' = NoReport
    /\ UNCHANGED <<now, zone, lot, pools>>

\* calculateCGT has returned and is called again, with the same list or with
\* the records of one of its symbols: a new CGTCalculator, whose constructor
\* sets its fields
CallAgain ==
    /\ pc = "done"
    /\ Len(prior) + 1 < MaxCalls
    /\ prior' = Append(prior, [raw |-> raw, report |-> report, pools |-> pools])
    /\ raw' \in {raw} \cup {OnlySymbol(raw, SymbolNormal(raw[i].symbol)) : i \in DOMAIN raw}
    /\ txns' = <<>>
    /\ symQueue' = <<>>
    /\ pools' = <<>>
    /\ acquisitions' = <<>>
    /\ disposals' = <<>>
    /\ errors' = <<>>
    /\ pc' = "start"
    /\ cur' = Idle
    /\ report' = NoReport
    /\ UNCHANGED <<now, zone, lot>>

-----------------------------------------------------------------------------
(* Inputs and specifications *)

\* a raw record with numeric fields; total is Null or Num(pence), rate in
\* hundredths; the broker is the one the generic parser gives
RawTxn(date, type, symbol, quantity, pricePerUnit, total, fees, rate) ==
    [date |-> date, type |-> type, symbol |-> symbol, quantity |-> Num(quantity),
     pricePerUnit |-> Num(pricePerUnit), totalAmount |-> total, fees |-> Num(fees),
     exchangeRate |-> Num(rate), broker |-> "Unknown"]

Iso(y, m, d) == DateStr("iso", y, m, d)

\* every list of at most n records of the set S that is in date order already
\* (normalizeTransactions sorts by date and keeps the order of equal dates, so
\* these are the lists it can return)
ListsOf(S, n) ==
    {l \in UNION {[1..k -> S] : k \in 0..n} :
        \A i \in 1..(Len(l) - 1) :
            DaysFromCivil(l[i].date.a, l[i].date.b, l[i].date.c)
                <= DaysFromCivil(l[i + 1].date.a, l[i + 1].date.b, l[i + 1].date.c)}

\* the state after `new CGTCalculator()`, before calculate(raw)
InitUnits(inputs, zones, lots) ==
    /\ now = 0
    /\ prior = <<>>
    /\ zone \in zones
    /\ lot \in lots
    /\ raw \in inputs
    /\ txns = <<>>
    /\ symQueue = <<>>
    /\ pools = <<>>
    /\ acquisitions = <<>>
    /\ disposals = <<>>
    /\ errors = <<>>
    /\ pc = "start"
    /\ cur = Idle
    /\ report = NoReport

\* the runs in whole shares
InitState(inputs, zones) == InitUnits(inputs, zones, {1})

\* Matching.  One symbol; the days 0, 1, 30 and 31 after 2024-03-30 (summer time
\* starts in London on 2024-03-31, so a difference of 30 days is 30 days less
\* one hour there); a buy of 1 priced per unit, a buy of 2 priced by a total
\* with fees (an odd number of pence), on the first day also a buy whose total
\* is negative (an export that signs purchases as cash outflows); sells of 1 or
\* 2 priced per unit.
MatchDates == {Iso(2024, 3, 30), Iso(2024, 3, 31), Iso(2024, 4, 29), Iso(2024, 4, 30)}

MatchRecords ==
    {RawTxn(d, "BUY", "XYZ", 1, 1000, Null, 0, 100) : d \in MatchDates}
    \cup {RawTxn(d, "BUY", "XYZ", 2, 0, Num(1001), 50, 100) : d \in MatchDates}
    \cup {RawTxn(Iso(2024, 3, 30), "BUY", "XYZ", 1, 0, Num(0 - 500), 0, 100)}
    \cup {RawTxn(d, "SELL", "XYZ", q, 1200, Null, 0, 100) : d \in MatchDates, q \in {1, 2}}

InitMatch == InitState(ListsOf(MatchRecords, MaxTxns), {"UTC", "Europe/London"})

\* Tax-year labels.  One buy of 3 in 2015 and sells of 1 on the first and last
\* days of calendar and tax years inside the TAX_YEARS table (2024), at its two
\* ends (2017, 2026) and outside it (1999/2000, 2016), in three time zones.
LabelDates ==
    {Iso(y, md[1], md[2]) : y \in {2016, 2017, 2024, 2026},
                            md \in {<<1, 1>>, <<4, 5>>, <<4, 6>>, <<12, 31>>}}
    \cup {Iso(1999, 12, 31), Iso(2000, 4, 5), Iso(2000, 4, 6)}

LabelRecords ==
    {RawTxn(Iso(1999, 6, 1), "BUY", "XYZ", 3, 1000, Null, 0, 100)}
    \cup {RawTxn(d, "SELL", "XYZ", 1, 1200, Null, 0, 100) : d \in LabelDates}

InitLabel ==
    InitState(ListsOf(LabelRecords, MaxLabelTxns),
              {"UTC", "Europe/London", "America/New_York"})

\* Tax-year summaries.  One buy of 2 at 10.00 a share in 2015 and sells of 1 on
\* the last day of 2023/24, the first day of 2024/25 and a day of 2016/17
\* (outside the table), at 12.00 (a gain of 2.00 on a pool share), at 7.00 (a
\* loss of 3.00) or at 8013.00 (a gain of 8003.00).
YearDates == {Iso(2016, 5, 1), Iso(2024, 4, 5), Iso(2024, 4, 6)}

YearRecords ==
    {RawTxn(Iso(2015, 6, 1), "BUY", "XYZ", 2, 1000, Null, 0, 100)}
    \cup {RawTxn(d, "SELL", "XYZ", 1, price, Null, 0, 100) :
            d \in YearDates, price \in {1200, 700, 801300}}

InitYear == InitState(ListsOf(YearRecords, MaxTxns), {"UTC"})

\* The rate change of 2024/25.  One buy of 2 at 10.00 a share in 2015 and sells
\* of 1 on the last day before the rate change and on its day, at 10.01 (a gain
\* of 0.01 on a pool share), at 6009.99 (a gain of 5999.99) or at 7.00 (a loss
\* of 3.00).
RateDates == {Iso(2024, 10, 29), Iso(2024, 10, 30)}

RateRecords ==
    {RawTxn(Iso(2015, 6, 1), "BUY", "XYZ", 2, 1000, Null, 0, 100)}
    \cup {RawTxn(d, "SELL", "XYZ", 1, price, Null, 0, 100) :
            d \in RateDates, price \in {1001, 600999, 700}}

InitRate == InitState(ListsOf(RateRecords, MaxTxns), {"UTC"})

\* Losses against gains.  One buy of 2 at 4000.00 a share in 2015 and sells of
\* 1 on the last day of 2023/24, on the last day before the rate change and on
\* its day, at 8000.00 (a gain of 4000.00 on a pool share), at 1000.00 (a loss
\* of 3000.00) or at 4010.00 (a gain of 10.00).
OffsetRecords ==
    {RawTxn(Iso(2015, 6, 1), "BUY", "XYZ", 2, 400000, Null, 0, 100)}
    \cup {RawTxn(d, "SELL", "XYZ", 1, price, Null, 0, 100) :
            d \in RateDates \cup {Iso(2024, 4, 5)}, price \in {800000, 100000, 401000}}

InitOffset == InitState(ListsOf(OffsetRecords, MaxTxns), {"UTC"})

\* Proceeds.  A buy of 2 and, the day after, sales priced per unit or by a
\* total (also a total of 0), with and without fees, at an exchange rate of
\* 1, of 1.25, of 0, not numeric and missing.
ProceedsRecords ==
    { RawTxn(Iso(2024, 3, 30), "BUY", "XYZ", 2, 1000, Null, 0, 100),
      RawTxn(Iso(2024, 3, 31), "SELL", "XYZ", 1, 1200, Null, 50, 100),
      RawTxn(Iso(2024, 3, 31), "SELL", "XYZ", 2, 1200, Num(1001), 50, 125),
      RawTxn(Iso(2024, 3, 31), "SELL", "XYZ", 1, 1200, Null, 0, 0),
      [RawTxn(Iso(2024, 3, 31), "SELL", "XYZ", 1, 1200, Null, 50, 100)
          EXCEPT !.exchangeRate = NaN],
      [RawTxn(Iso(2024, 3, 31), "SELL", "XYZ", 1, 1201, Null, 0, 100)
          EXCEPT !.exchangeRate = Null],
      RawTxn(Iso(2024, 3, 31), "SELL", "XYZ", 2, 1200, Num(0), 50, 100),
      RawTxn(Iso(2024, 3, 31), "SELL", "XYZ", 3, 333, Null, 1, 125) }

InitProceeds == InitState(ListsOf(ProceedsRecords, MaxTxns), {"UTC"})

\* Fractions of a share.  The quantities are in whole shares or in units of
\* 0.005 share: for XYZ a buy of 1 unit at 1000.00 a share, a buy of 2 units
\* the day after for a total of 10.01 and sales of 1 and of 3 units; for ABC a
\* buy of 1 unit.
UnitRecords ==
    { RawTxn(Iso(2024, 3, 30), "BUY", "XYZ", 1, 100000, Null, 0, 100),
      RawTxn(Iso(2024, 3, 31), "BUY", "XYZ", 2, 0, Num(1001), 0, 100),
      RawTxn(Iso(2024, 3, 31), "SELL", "XYZ", 1, 120000, Null, 0, 100),
      RawTxn(Iso(2024, 4, 30), "SELL", "XYZ", 3, 120000, Null, 0, 100),
      RawTxn(Iso(2024, 3, 30), "BUY", "ABC", 1, 50000, Null, 0, 100) }

InitUnitRuns == InitUnits(ListsOf(UnitRecords, MaxTxns), {"UTC"}, {1, 200})

\* The rate change of 2024/25 where the engine runs east and west of UTC, so
\* that the local midnight of a day is before or after its UTC midnight.
InitZoned ==
    InitState(ListsOf(RateRecords, MaxTxns), {"UTC", "Europe/Paris", "America/New_York"})

\* Raw records of every shape, in any order.  The same two days, 4 March and
\* 13 April 2024, written in the formats parseDate reads, and a date no rule
\* reads, the ambiguous 3/4/2024 from a US and from a UK broker;
\* quantities that are positive, zero, negative and not numeric; a buy
\* that has a total, a price per unit, fees and an exchange rate of 1.25; a
\* record without a type and one whose symbol is a number.
Slash(a, b, year) == DateStr("slash", a, b, year)

Dash(day, month, year) == DateStr("dash", day, month, year)

Unreadable == DateStr("none", 0, 0, 0)

InputRecords ==
    { RawTxn(Iso(2024, 4, 13), "BUY", "XYZ", 1, 1000, Null, 0, 100),
      RawTxn(Slash(13, 4, 2024), "BUY", "XYZ", 2, 1000, Num(1001), 50, 125),
      RawTxn(Slash(4, 13, 2024), "SELL", "XYZ", 1, 1200, Null, 0, 100),
      [RawTxn(Slash(3, 4, 2024), "BUY", "XYZ", 1, 900, Null, 0, 100)
          EXCEPT !.broker = "Charles Schwab"],
      [RawTxn(Slash(3, 4, 2024), "BUY", "XYZ", 1, 900, Null, 0, 100)
          EXCEPT !.broker = "Trading 212"],
      RawTxn(Dash(4, 3, 2024), "SELL", "XYZ", 2, 1100, Null, 0, 100),
      RawTxn(Unreadable, "SELL", "XYZ", 1, 1200, Null, 0, 100),
      RawTxn(Iso(2024, 3, 4), "BUY", "XYZ", 0, 1000, Null, 0, 100),
      [RawTxn(Iso(2024, 4, 13), "BUY", "XYZ", 1, 1000, Null, 0, 100) EXCEPT !.quantity = NaN],
      RawTxn(Iso(2024, 4, 13), "SELL", "XYZ", 0 - 1, 1300, Null, 0, 100),
      RawTxn(Iso(2024, 3, 4), Undefined, "XYZ", 1, 1000, Null, 0, 100),
      RawTxn(Iso(2024, 4, 13), "BUY", NotAString, 1, 1000, Null, 0, 100),
      RawTxn(Unreadable, Undefined, "XYZ", 1, 1000, Null, 0, 100) }

InitInput ==
    InitState(UNION {[1..k -> InputRecords] : k \in 0..MaxInputTxns}, {"UTC"})

\* Year-end snapshots.  Around the end of 2023/24: purchases of 2 XYZ and of
\* 1 ABC in June 2023, sales of 1 on 5 April 2024 and purchases and sales of 1
\* XYZ on 6 April 2024, all priced per unit without fees.
SnapRecords ==
    { RawTxn(Iso(2023, 6, 1), "BUY", "XYZ", 2, 1000, Null, 0, 100),
      RawTxn(Iso(2023, 6, 1), "BUY", "ABC", 1, 500, Null, 0, 100),
      RawTxn(Iso(2024, 4, 5), "SELL", "XYZ", 1, 1200, Null, 0, 100),
      RawTxn(Iso(2024, 4, 5), "SELL", "ABC", 1, 600, Null, 0, 100),
      RawTxn(Iso(2024, 4, 6), "BUY", "XYZ", 1, 1100, Null, 0, 100),
      RawTxn(Iso(2024, 4, 6), "SELL", "XYZ", 1, 1300, Null, 0, 100) }

InitSnap == InitState(ListsOf(SnapRecords, MaxSnapTxns), {"UTC"})

\* Several calls.  Two symbols on two consecutive days: for XYZ a buy of 2,
\* a sale of 1 the day after and a sale of 3 on the first day; for ABC a buy
\* of 1, a buy of 1 the day after priced by a total and a sale of 1.
CallRecords ==
    { RawTxn(Iso(2024, 3, 30), "BUY", "XYZ", 2, 1000, Null, 0, 100),
      RawTxn(Iso(2024, 3, 31), "SELL", "XYZ", 1, 1200, Null, 0, 100),
      RawTxn(Iso(2024, 3, 30), "SELL", "XYZ", 3, 1100, Null, 0, 100),
      RawTxn(Iso(2024, 3, 30), "BUY", "ABC", 1, 500, Null, 0, 100),
      RawTxn(Iso(2024, 3, 31), "BUY", "ABC", 1, 0, Num(451), 0, 100),
      RawTxn(Iso(2024, 3, 31), "SELL", "ABC", 1, 400, Null, 0, 100) }

InitCalls == InitState(ListsOf(CallRecords, MaxCallTxns), {"UTC"})

Next ==
    \/ Calculate
    \/ BeginSymbol
    \/ SameDayRule
    \/ BedAndBreakfastRule
    \/ RollIn
    \/ DrawFromPool
    \/ RecordDisposal
    \/ EndOfStreamAdd
    \/ EndSymbol
    \/ GenerateReport

Spec == InitMatch /\ [][Next]_vars

SpecLabel == InitLabel /\ [][Next]_vars

SpecYear == InitYear /\ [][Next]_vars

SpecRate == InitRate /\ [][Next]_vars

SpecOffset == InitOffset /\ [][Next]_vars

SpecZoned == InitZoned /\ [][Next]_vars

SpecUnits == InitUnitRuns /\ [][Next]_vars

SpecProceeds == InitProceeds /\ [][Next]_vars

SpecInput == InitInput /\ [][Next]_vars

SpecSnap == InitSnap /\ [][Next]_vars

NextCalls ==
    \/ Next
    \/ Tick
    \/ CallAgain

SpecCalls == InitCalls /\ [][NextCalls]_vars

-----------------------------------------------------------------------------
(* Vocabulary of the properties.  These definitions restate what the claims *)
(* say in terms of calendar days and plain sums; none of them is used by    *)
(* the model of the code above.                                             *)

RECURSIVE FnSum(_)
\* the sum of the values of a function with a finite domain
FnSum(f) ==
    IF DOMAIN f = {} THEN 0
    ELSE LET x == CHOOSE x \in DOMAIN f : TRUE
         IN f[x] + FnSum([y \in DOMAIN f \ {x} |-> f[y]])

\* c is num / den (den > 0) rounded to the nearest integer, a half going up
IsRounding(c, num, den) == 2 * c * den <= 2 * num + den /\ 2 * c * den > 2 * num - den

\* the sum of the quantities of the entries of a matchDetails list under the rules R
QtyUnder(md, R) ==
    FnSum([k \in {k \in DOMAIN md : md[k].rule \in R} |-> md[k].quantity])

AllRules == {"SAME_DAY", "BED_AND_BREAKFAST", "SECTION_104"}

MatchedQty(d) == QtyUnder(d.matchDetails, AllRules)

\* the sum of the costs of the entries of a matchDetails list
CostOf(md) == FnSum([k \in DOMAIN md |-> md[k].cost])

\* the day ordinal of a YYYY-MM-DD string
OrdinalOf(str) == DaysFromCivil(str.a, str.b, str.c)

\* the indices of the acquisitions of a symbol in the normalized list
BuysOf(symbol) ==
    {i \in 1..Len(txns) : txns[i].type = "BUY" /\ txns[i].symbol = symbol}

\* the pool of a symbol in a list of pools
PoolOf(ps, symbol) == ps[CHOOSE i \in DOMAIN ps : ps[i].symbol = symbol]

\* the own cost of q shares of acquisition t, before rounding, as num / den
OwnCostNum(t, q) ==
    ((IF t.totalAmount.k = "num" THEN t.totalAmount.v ELSE t.quantity * t.pricePerUnit)
        + t.fees) * q * 100

OwnCostDen(t) == t.quantity * t.exchangeRate

\* the order in which the rules are applied
RuleRank(rule) ==
    CASE rule = "SAME_DAY" -> 1 [] rule = "BED_AND_BREAKFAST" -> 2 [] OTHER -> 3

RulesInOrder(md) ==
    /\ \A j, k \in DOMAIN md : j < k => RuleRank(md[j].rule) <= RuleRank(md[k].rule)
    /\ Cardinality({k \in DOMAIN md : md[k].rule = "SECTION_104"}) <= 1

-----------------------------------------------------------------------------
(* C1 *)

\* C1: at every point of the processing, every Section 104 pool has
\* quantity >= 0 and cost >= 0.
C1_PoolNeverNegative ==
    \A i \in DOMAIN pools : pools[i].quantity >= 0 /\ pools[i].cost >= 0

-----------------------------------------------------------------------------
(* C2 *)

\* C2: for every recorded disposal the matched quantities plus the
\* unmatchedQuantity of its UNMATCHED_DISPOSAL diagnostic (0 when it has none)
\* make up the disposal quantity, and the matched quantities alone do so exactly
\* when it has no diagnostic: the diagnostics are, in order, those of the
\* disposals whose matched quantity differs from their quantity.
C2_FullAllocation ==
    LET short == SelectIdx(disposals, [d \in Range(disposals) |-> MatchedQty(d) # d.quantity])
    IN /\ Len(errors) = Len(short)
       /\ \A k \in 1..Len(short) :
            LET d == disposals[short[k]]
                e == errors[k]
            IN /\ e.type = "UNMATCHED_DISPOSAL"
               /\ e.symbol = d.symbol /\ e.date = d.date
               /\ e.unmatchedQuantity > 0
               /\ MatchedQty(d) + e.unmatchedQuantity = d.quantity

\* a disposal matched in part, with its diagnostic
C2_Witness ==
    \E j \in DOMAIN disposals :
        /\ MatchedQty(disposals[j]) > 0
        /\ MatchedQty(disposals[j]) < disposals[j].quantity
        /\ Len(errors) > 0

-----------------------------------------------------------------------------
(* C3 *)

\* C3: while a disposal is processed, a BED_AND_BREAKFAST match exists only
\* when every acquisition on the disposal's calendar date has remaining
\* quantity 0, a SECTION_104 match only when moreover every acquisition dated 1
\* to 30 days after it has remaining quantity 0; the matchDetails of a disposal
\* are SAME_DAY entries, then BED_AND_BREAKFAST entries, then at most one
\* SECTION_104 entry.
C3_RulePrecedence ==
    /\ \A j \in DOMAIN disposals : RulesInOrder(disposals[j].matchDetails)
    /\ pc \in {"bnb", "s104", "record"} =>
         LET disposal == txns[Head(cur.sells)]
             md == cur.matchDetails
             sameDayLeft == \E i \in BuysOf(disposal.symbol) :
                                txns[i].date = disposal.date /\ txns[i].remainingQty > 0
             laterLeft == \E i \in BuysOf(disposal.symbol) :
                              /\ txns[i].date - disposal.date \in 1..30
                              /\ txns[i].remainingQty > 0
         IN /\ RulesInOrder(md)
            /\ (\E k \in DOMAIN md : md[k].rule = "BED_AND_BREAKFAST") => ~sameDayLeft
            /\ (\E k \in DOMAIN md : md[k].rule = "SECTION_104") =>
                   ~sameDayLeft /\ ~laterLeft

\* a disposal matched bed-and-breakfast and then from the pool
C3_Witness ==
    /\ pc = "record"
    /\ Len(cur.matchDetails) = 2
    /\ cur.matchDetails[1].rule = "BED_AND_BREAKFAST"
    /\ cur.matchDetails[2].rule = "SECTION_104"

-----------------------------------------------------------------------------
(* C4 *)

\* C4: in the final report every disposal D is matched SAME_DAY for
\* min(D.quantity, quantity acquired on D's calendar date that is not matched
\* SAME_DAY to another disposal of that date).
C4_SameDayFirst ==
    pc = "done" =>
        \A j \in DOMAIN disposals :
            LET d == disposals[j]
                acquired == FnSum([i \in {i \in BuysOf(d.symbol) :
                                             txns[i].date = OrdinalOf(d.date)}
                                   |-> txns[i].quantity])
                others == FnSum([e \in {e \in DOMAIN disposals :
                                           /\ e # j
                                           /\ disposals[e].symbol = d.symbol
                                           /\ disposals[e].date = d.date}
                                 |-> QtyUnder(disposals[e].matchDetails, {"SAME_DAY"})])
            IN QtyUnder(d.matchDetails, {"SAME_DAY"}) = Min(d.quantity, acquired - others)

-----------------------------------------------------------------------------
(* C5 *)

\* C5: in the bed-and-breakfast step of a disposal with quantity R still
\* unmatched, the candidates are exactly the acquisitions dated 1 to 30 days
\* after the disposal with remaining quantity > 0; taken in ascending date order
\* each gives min(what is left of R, its remaining quantity), recorded as a
\* BED_AND_BREAKFAST entry at its own cost; no other acquisition is touched.
C5_BedAndBreakfast ==
    [][pc = "bnb" =>
        LET disposal == txns[Head(cur.sells)]
            R == cur.remainingQty
            IsCand(i) == /\ i \in BuysOf(disposal.symbol)
                         /\ txns[i].date - disposal.date \in 1..30
                         /\ txns[i].remainingQty > 0
            Before(j, i) == /\ IsCand(j)
                            /\ \/ txns[j].date < txns[i].date
                               \/ txns[j].date = txns[i].date /\ j < i
            Ahead(i) == FnSum([j \in {j \in 1..Len(txns) : Before(j, i)}
                               |-> txns[j].remainingQty])
            Take(i) == IF IsCand(i)
                       THEN Min(txns[i].remainingQty, Max(0, R - Ahead(i))) ELSE 0
            takers == {i \in 1..Len(txns) : Take(i) > 0}
            old == Len(cur.matchDetails)
            new == [k \in 1..(Len(cur.matchDetails') - old) |-> cur.matchDetails'[old + k]]
        IN /\ Len(txns') = Len(txns)
           /\ \A i \in 1..Len(txns) : txns'[i].remainingQty = txns[i].remainingQty - Take(i)
           /\ cur.remainingQty' = R - FnSum([i \in takers |-> Take(i)])
           /\ SubSeq(cur.matchDetails', 1, old) = cur.matchDetails
           /\ Len(new) = Cardinality(takers)
           /\ \A i \in takers :
                LET e == new[Cardinality({j \in takers : Before(j, i)}) + 1]
                IN /\ e.rule = "BED_AND_BREAKFAST"
                   /\ e.quantity = Take(i)
                   /\ e.daysDifference = txns[i].date - disposal.date
                   /\ e.acquisitionDate.fmt = "iso"
                   /\ OrdinalOf(e.acquisitionDate) = txns[i].date
                   /\ IsRounding(e.cost, OwnCostNum(txns[i], Take(i)), OwnCostDen(txns[i]))
           /\ cur.totalCost' = cur.totalCost + CostOf(new)
    ]_vars

\* a disposal matched against two later acquisitions, the second one 30 days after it
C5_Witness ==
    /\ pc \in {"s104", "record"}
    /\ Len(cur.matchDetails) = 2
    /\ cur.matchDetails[1].rule = "BED_AND_BREAKFAST"
    /\ cur.matchDetails[1].daysDifference = 1
    /\ cur.matchDetails[2].rule = "BED_AND_BREAKFAST"
    /\ cur.matchDetails[2].daysDifference = 30

-----------------------------------------------------------------------------
(* C6 *)

-----------------------------------------------------------------------------
(* C7 *)

\* C7: when a disposal is recorded with quantity u > 0 left unmatched, exactly
\* one UNMATCHED_DISPOSAL entry with the symbol, the disposal's date and
\* unmatchedQuantity = u is appended to errors, and none when u = 0; the
\* disposal is recorded all the same, its cost being the sum of its matched
\* tranches; the report's errors are those entries, one per short disposal.
C7_UnmatchedDisposal ==
    /\ [][pc = "record" =>
            LET disposal == txns[Head(cur.sells)]
                u == disposal.quantity - QtyUnder(cur.matchDetails, AllRules)
                c == CivilFromDays(disposal.date)
            IN /\ errors' = IF u > 0
                            THEN Append(errors,
                                   [type |-> "UNMATCHED_DISPOSAL", symbol |-> disposal.symbol,
                                    date |-> DateStr("iso", c[1], c[2], c[3]),
                                    unmatchedQuantity |-> u])
                            ELSE errors
               /\ Len(disposals') = Len(disposals) + 1
               /\ SubSeq(disposals', 1, Len(disposals)) = disposals
               /\ disposals'[Len(disposals')].id = disposal.id
               /\ disposals'[Len(disposals')].matchDetails = cur.matchDetails
               /\ disposals'[Len(disposals')].cost = CostOf(cur.matchDetails)
       ]_vars
    /\ [](pc = "done" =>
            /\ report.errors = errors
            /\ report.allDisposals = disposals
            /\ Len(report.errors)
                 = Cardinality({j \in DOMAIN disposals :
                                   MatchedQty(disposals[j]) < disposals[j].quantity}))

\* a report with a disposal matched in part (1 of 2, at cost 10.00) and its diagnostic
C7_Witness ==
    /\ pc = "done"
    /\ \E j \in DOMAIN report.allDisposals :
         /\ report.allDisposals[j].quantity = 2
         /\ MatchedQty(report.allDisposals[j]) = 1
         /\ report.allDisposals[j].cost = 1000
    /\ \E k \in DOMAIN report.errors : report.errors[k].unmatchedQuantity = 1

-----------------------------------------------------------------------------
(* C8 *)

\* C8: the report has exactly one disposal record per normalized SELL
\* transaction, and each record's cost is the sum of its matchDetails costs and
\* its gain is its proceeds minus its cost.
C8_OneDisposalPerSell ==
    pc = "done" =>
        LET sells == {i \in 1..Len(txns) : txns[i].type = "SELL"}
            ds == report.allDisposals
        IN /\ Len(ds) = Cardinality(sells)
           /\ \A i \in sells :
                Cardinality({j \in DOMAIN ds : ds[j].id = txns[i].id}) = 1
           /\ \A j \in DOMAIN ds :
                /\ ds[j].cost = CostOf(ds[j].matchDetails)
                /\ ds[j].gain = ds[j].proceeds - ds[j].cost

\* a report of two sales, one matched and one with nothing to match
C8_Witness ==
    /\ pc = "done"
    /\ Len(report.allDisposals) = 2
    /\ \E j \in DOMAIN report.allDisposals : report.allDisposals[j].matchDetails = <<>>
    /\ \E j \in DOMAIN report.allDisposals : report.allDisposals[j].cost > 0

-----------------------------------------------------------------------------
(* C9 *)

\* C9: the taxYear label of every disposal is "Y/YY" with YY the last two
\* digits of Y + 1, where 6 April of year Y <= the disposal's date <= 5 April
\* of year Y + 1, for the dates inside the TAX_YEARS table and outside it.
C9_TaxYearLabel ==
    \A j \in DOMAIN disposals :
        LET d == disposals[j]
            Y == d.taxYear[1]
        IN /\ DaysFromCivil(Y, 4, 6) <= OrdinalOf(d.date)
           /\ OrdinalOf(d.date) <= DaysFromCivil(Y + 1, 4, 5)
           /\ d.taxYear[2] = (Y + 1) % 100

\* in London, a disposal on 6 April 2024 (local midnight is before the table's
\* UTC start of 2024/25) and one on 5 April 2016 (before the table)
C9_Witness ==
    /\ zone = "Europe/London"
    /\ \E j \in DOMAIN disposals :
         disposals[j].date = Iso(2024, 4, 6) /\ disposals[j].taxYear = <<2024, 25>>
    /\ \E j \in DOMAIN disposals :
         disposals[j].date = Iso(2016, 4, 5) /\ disposals[j].taxYear = <<2015, 16>>

-----------------------------------------------------------------------------
(* C10 *)

\* the annual exempt amount of a configured tax year, in pence
AnnualExemptAmount(Y) ==
    CASE Y \in {2024, 2025} -> 300000
      [] Y = 2023 -> 600000
      [] Y \in {2020, 2021, 2022} -> 1230000
      [] Y = 2019 -> 1200000
      [] Y = 2018 -> 1170000
      [] Y = 2017 -> 1130000

\* C10: every tax year with a disposal has one summary, and in every summary
\* totalGains is the sum of the gains >= 0 of the disposals of that year,
\* totalLosses the sum of the absolute values of its negative gains, netGain =
\* totalGains - totalLosses and taxableGain = max(0, netGain - annualExemption),
\* annualExemption being the amount of that year for a configured year.
C10_TaxYearSummary ==
    pc = "done" =>
        LET ds == report.allDisposals
            ys == report.taxYears
        IN /\ \A j \in DOMAIN ds :
                Cardinality({k \in DOMAIN ys : ys[k].taxYear = ds[j].taxYear}) = 1
           /\ \A k \in DOMAIN ys :
                LET s == ys[k]
                    mine == {j \in DOMAIN ds : ds[j].taxYear = s.taxYear}
                IN /\ mine # {}
                   /\ s.totalGains = FnSum([j \in {j \in mine : ds[j].gain >= 0} |-> ds[j].gain])
                   /\ s.totalLosses
                        = FnSum([j \in {j \in mine : ds[j].gain < 0} |-> 0 - ds[j].gain])
                   /\ s.netGain = s.totalGains - s.totalLosses
                   /\ s.taxYear[1] \in 2017..2025 =>
                        s.annualExemption = AnnualExemptAmount(s.taxYear[1])
                   /\ s.taxableGain = Max(0, s.netGain - s.annualExemption)

\* 2023/24 with a gain of 8003.00 and a loss of 3.00: net gain 8000.00, exempt
\* amount 6000.00, taxable gain 2000.00
C10_Witness ==
    /\ pc = "done"
    /\ \E k \in DOMAIN report.taxYears :
         /\ report.taxYears[k].taxYear = <<2023, 24>>
         /\ report.taxYears[k].totalGains = 800300
         /\ report.taxYears[k].totalLosses = 300
         /\ report.taxYears[k].netGain = 800000
         /\ report.taxYears[k].annualExemption = 600000
         /\ report.taxYears[k].taxableGain = 200000

-----------------------------------------------------------------------------
(* C11 *)

\* part * amount / total rounded to the nearest integer, a half going up
ShareOf(part, total, amount) ==
    LET m == MulDivMod(part, amount, total)
    IN m[1] + (IF 2 * m[2] >= total THEN 1 ELSE 0)

\* the gains (sign = 1) or the losses (sign = -1) of the disposals of 2024/25
\* dated before the rate change (side = "pre") or from its day on ("post")
SideSum(ds, side, sign) ==
    FnSum([j \in {j \in DOMAIN ds :
                     /\ ds[j].taxYear = <<2024, 25>>
                     /\ (side = "pre") = (OrdinalOf(ds[j].date) < DaysFromCivil(2024, 10, 30))
                     /\ (IF sign = 1 THEN ds[j].gain >= 0 ELSE ds[j].gain < 0)}
           |-> sign * ds[j].gain])

\* C11: in the 2024/25 summary of a report with positive gains on at least one
\* side of the rate change, with E the annual exemption, T the gains of the
\* two sides together and each side's exemption its share gains / T of
\* min(E, T), the two exemptions together do not exceed E, each side's taxable
\* gain is max(0, gains - losses - exemption), and estimatedTaxBasicRate =
\* round2(preTaxable * 0.10 + postTaxable * 0.18), estimatedTaxHigherRate =
\* round2(preTaxable * 0.20 + postTaxable * 0.24).
C11_SplitRateTax ==
    pc = "done" =>
        \A k \in DOMAIN report.taxYears :
            LET s == report.taxYears[k]
                ds == report.allDisposals
                preG == SideSum(ds, "pre", 1)
                postG == SideSum(ds, "post", 1)
                T == preG + postG
                preEx == ShareOf(preG, T, Min(s.annualExemption, T))
                postEx == ShareOf(postG, T, Min(s.annualExemption, T))
                preTaxable == Max(0, preG - SideSum(ds, "pre", 0 - 1) - preEx)
                postTaxable == Max(0, postG - SideSum(ds, "post", 0 - 1) - postEx)
            IN (s.taxYear = <<2024, 25>> /\ T > 0) =>
                 /\ s.annualExemption = 300000
                 /\ preEx + postEx <= s.annualExemption
                 /\ IsRounding(s.estimatedTaxBasicRate,
                               preTaxable * 10 + postTaxable * 18, 100)
                 /\ IsRounding(s.estimatedTaxHigherRate,
                               preTaxable * 20 + postTaxable * 24, 100)

-----------------------------------------------------------------------------
(* C12 *)

\* C12: a disposal dated outside every configured tax year is reported, under
\* the label of the tax year its date lies in, and the summary of that year
\* has annualExemption = 11300.00, taxableGain = max(0, netGain - 11300.00) and
\* the estimated tax figures at 10% and 20% of the taxable gain.
C12_UnconfiguredYear ==
    pc = "done" =>
        /\ \A i \in 1..Len(txns) :
             txns[i].type = "SELL" =>
                 \E j \in DOMAIN report.allDisposals :
                     /\ report.allDisposals[j].id = txns[i].id
                     /\ \E k \in DOMAIN report.taxYears :
                          report.taxYears[k].taxYear = report.allDisposals[j].taxYear
        /\ \A k \in DOMAIN report.taxYears :
             LET s == report.taxYears[k]
             IN s.taxYear[1] \notin 2017..2025 =>
                  /\ \A j \in DOMAIN s.disposals :
                       /\ DaysFromCivil(s.taxYear[1], 4, 6) <= OrdinalOf(s.disposals[j].date)
                       /\ OrdinalOf(s.disposals[j].date) <= DaysFromCivil(s.taxYear[1] + 1, 4, 5)
                  /\ s.annualExemption = 1130000
                  /\ s.taxableGain = Max(0, s.netGain - 1130000)
                  /\ IsRounding(s.estimatedTaxBasicRate, s.taxableGain * 10, 100)
                  /\ IsRounding(s.estimatedTaxHigherRate, s.taxableGain * 20, 100)

-----------------------------------------------------------------------------
(* C13 *)

\* a raw record with nothing malformed: a date that parses, a numeric quantity
\* other than 0, the type BUY or SELL and a string for symbol
WellFormed(t) ==
    /\ t.date.fmt # "none"
    /\ t.quantity.k = "num" /\ t.quantity.v # 0
    /\ t.type \in {"BUY", "SELL"}
    /\ t.symbol \notin {Undefined, NotAString}

\* C13: calculateCGT never throws, whatever records the list holds, and the
\* report it returns accounts for every well-formed record of the list: an
\* acquisition per BUY and a disposal per SELL.
C13_NeverThrows ==
    /\ pc # "threw"
    /\ pc = "done" =>
         /\ Len(report.acquisitions)
              = Cardinality({i \in DOMAIN raw : WellFormed(raw[i]) /\ raw[i].type = "BUY"})
         /\ Len(report.allDisposals)
              = Cardinality({i \in DOMAIN raw : WellFormed(raw[i]) /\ raw[i].type = "SELL"})

-----------------------------------------------------------------------------
(* C14 *)

\* the ids of the records of the normalized list
StreamIds == {txns[j].id.index : j \in DOMAIN txns}

\* the ids the raw records that pass `keeps` get from normalization (the index
\* in the raw list, from 0)
IdsOfRaw(keeps) == {i - 1 : i \in {i \in DOMAIN raw : keeps[raw[i]]}}

\* every record of the stream, every acquisition and every disposal comes from
\* a raw record that passes `keeps`, and each such record is in the stream once
StreamIsExactly(keeps) ==
    /\ StreamIds = IdsOfRaw(keeps)
    /\ Len(txns) = Cardinality(StreamIds)
    /\ \A j \in DOMAIN disposals : disposals[j].id.index \in IdsOfRaw(keeps)
    /\ pc = "done" =>
         /\ Len(disposals) = Cardinality({j \in DOMAIN txns : txns[j].type = "SELL"})
         /\ Len(acquisitions) = Cardinality({j \in DOMAIN txns : txns[j].type = "BUY"})

-----------------------------------------------------------------------------
(* C17 *)

\* C17: when calculateCGT has returned for a list it was called with before,
\* the report is the report of the earlier call, field by field, generatedAt
\* and the disposal ids included.
C17_IdenticalReports ==
    pc = "done" =>
        \A k \in DOMAIN prior : prior[k].raw = raw => prior[k].report = report

-----------------------------------------------------------------------------
(* C15 *)

\* C15: the list normalization returns is in ascending date order, two records
\* of the same date being in the order they have in the input; and a disposal
\* takes its same-day acquisitions in input order: one is drawn on only when
\* those before it in the input are used up.
C15_StableDateOrder ==
    /\ [](pc \notin {"start", "threw"} =>
            \A j, k \in DOMAIN txns :
                j < k => \/ txns[j].date < txns[k].date
                         \/ /\ txns[j].date = txns[k].date
                            /\ txns[j].id.index < txns[k].id.index)
    /\ [][pc = "sameDay" =>
            LET disposal == txns[Head(cur.sells)]
                sameDay == {i \in BuysOf(disposal.symbol) :
                               txns[i].date = disposal.date /\ txns[i].remainingQty > 0}
            IN \A i, j \in sameDay :
                   (/\ txns[i].id.index < txns[j].id.index
                    /\ txns'[j].remainingQty < txns[j].remainingQty)
                       => txns'[i].remainingQty = 0
       ]_vars

\* a list that has a sale of 1 before two purchases of the same day, of 2 and
\* then of 1: the sale has taken 1 share of the purchase of 2, for 4.20
C15_Witness ==
    /\ pc = "record"
    /\ Len(txns) = 3
    /\ txns[1].type = "SELL" /\ txns[1].id.index = 0
    /\ txns[2].date = txns[1].date /\ txns[2].quantity = 2 /\ txns[2].remainingQty = 1
    /\ txns[3].date = txns[1].date /\ txns[3].quantity = 1 /\ txns[3].remainingQty = 1
    /\ Len(cur.matchDetails) = 1
    /\ cur.matchDetails[1].rule = "SAME_DAY"
    /\ cur.matchDetails[1].cost = 420

-----------------------------------------------------------------------------
(* C16 *)

\* C16: the date of a normalized record is, for a raw date 'A/B/YYYY', day A
\* of month B when A > 12 and day B of month A otherwise; for 'YYYY-MM-DD',
\* day DD of month MM; for 'DD-MM-YYYY', day DD of month MM; each of year
\* YYYY, whatever the broker of the record.
C16_DateFormats ==
    pc \notin {"start", "threw"} =>
        \A j \in DOMAIN txns :
            LET r == raw[txns[j].id.index + 1].date
                date == CivilFromDays(txns[j].date)
            IN CASE r.fmt = "iso" -> date = <<r.a, r.b, r.c>>
                 [] r.fmt = "slash" /\ r.a > 12 -> date = <<r.c, r.b, r.a>>
                 [] r.fmt = "slash" /\ r.a <= 12 -> date = <<r.c, r.a, r.b>>
                 [] r.fmt = "dash" -> date = <<r.c, r.b, r.a>>
                 [] OTHER -> FALSE

\* a normalized list of 4-3-2024 (dashes), 3/4/2024 from a UK broker, all on
\* 4 March, and 13/4/2024 on 13 April
C16_Witness ==
    /\ pc \notin {"start", "threw"}
    /\ Len(txns) = 3
    /\ \E j \in DOMAIN txns :
         /\ raw[txns[j].id.index + 1].date = Dash(4, 3, 2024)
         /\ txns[j].date = DaysFromCivil(2024, 3, 4)
    /\ \E j \in DOMAIN txns :
         /\ raw[txns[j].id.index + 1].date = Slash(3, 4, 2024)
         /\ txns[j].broker = "Trading 212"
         /\ txns[j].date = DaysFromCivil(2024, 3, 4)
    /\ \E j \in DOMAIN txns :
         /\ raw[txns[j].id.index + 1].date = Slash(13, 4, 2024)
         /\ txns[j].date = DaysFromCivil(2024, 4, 13)

-----------------------------------------------------------------------------
(* C18 *)

\* the entries of a list that are of a symbol, in their order, without the id
\* (which numbers a record within the list it was given in)
OfSymbol(entries, symbol) ==
    LET hit == SelectIdx(entries, [e \in Range(entries) |-> e.symbol = symbol])
    IN [j \in 1..Len(hit) |->
          [f \in DOMAIN entries[hit[j]] \ {"id"} |-> entries[hit[j]][f]]]

\* C18: when calculateCGT has returned for the records of one symbol S of a
\* list it was called with before, the disposals of S (match details, cost and
\* gain included), the acquisitions and the diagnostics of S and the final
\* pool of S are what the call with the whole list gave for S, in whatever
\* order the symbols of that list were processed.
C18_SymbolsIndependent ==
    pc = "done" =>
        \A k \in DOMAIN prior :
            \A S \in {raw[i].symbol : i \in DOMAIN raw} :
                raw = OnlySymbol(prior[k].raw, S) =>
                    /\ OfSymbol(disposals, S) = OfSymbol(prior[k].report.allDisposals, S)
                    /\ OfSymbol(acquisitions, S) = OfSymbol(prior[k].report.acquisitions, S)
                    /\ OfSymbol(errors, S) = OfSymbol(prior[k].report.errors, S)
                    /\ OfSymbol(pools, S) = OfSymbol(prior[k].pools, S)

\* XYZ alone (a purchase and a sale drawn from the pool) after a call where an
\* ABC record came first, so that ABC was processed before XYZ
C18_Witness ==
    /\ pc = "done"
    /\ Len(prior) = 1
    /\ Len(prior[1].raw) = 3
    /\ prior[1].raw[1].symbol = "ABC"
    /\ Len(raw) = 2
    /\ raw = OnlySymbol(prior[1].raw, "XYZ")
    /\ Len(disposals) = 1
    /\ disposals[1].matchDetails # <<>>
    /\ disposals[1].matchDetails[1].rule = "SECTION_104"

-----------------------------------------------------------------------------
(* C19 *)

\* the match details of the disposals of a symbol, as pairs <<disposal, entry>>
\* of indices
MatchesOf(ds, symbol) ==
    {p \in {<<j, k>> : j \in DOMAIN ds, k \in 1..MaxSnapTxns + 1} :
        ds[p[1]].symbol = symbol /\ p[2] \in DOMAIN ds[p[1]].matchDetails}

\* what the Section 104 pool of a symbol holds after the events of day `cutoff`,
\* by field "quantity" or "cost": the acquisitions dated up to the cutoff, less
\* what same-day and bed-and-breakfast matches took of them, less what the
\* disposals dated up to the cutoff drew from the pool
HeldAt(ds, acqs, symbol, cutoff, field) ==
    FnSum([j \in {j \in DOMAIN acqs : /\ acqs[j].symbol = symbol
                                      /\ OrdinalOf(acqs[j].date) <= cutoff}
           |-> IF field = "quantity" THEN acqs[j].quantity ELSE acqs[j].totalCost])
    - FnSum([p \in {p \in MatchesOf(ds, symbol) :
                       LET e == ds[p[1]].matchDetails[p[2]]
                       IN IF e.rule = "SECTION_104"
                          THEN OrdinalOf(ds[p[1]].date) <= cutoff
                          ELSE OrdinalOf(e.acquisitionDate) <= cutoff}
             |-> ds[p[1]].matchDetails[p[2]][field]])

\* a snapshot lists the symbols that hold shares at the cutoff, each once, with
\* the quantity and the cost held
SnapshotIs(snapshot, ds, acqs, cutoff) ==
    \A symbol \in {"XYZ", "ABC"} :
        LET entries == {k \in DOMAIN snapshot : snapshot[k].symbol = symbol}
        IN IF HeldAt(ds, acqs, symbol, cutoff, "quantity") > 0
           THEN /\ Cardinality(entries) = 1
                /\ \A k \in entries :
                     /\ snapshot[k].quantity = HeldAt(ds, acqs, symbol, cutoff, "quantity")
                     /\ snapshot[k].totalCost = HeldAt(ds, acqs, symbol, cutoff, "cost")
           ELSE entries = {}

\* C19: in the summary of every configured tax year Y/Y+1 of the report,
\* section104Start lists for every symbol what its Section 104 pool holds
\* after the events of 5 April Y and section104End what it holds after the
\* events of 5 April Y+1, also when a disposal before the cutoff is matched to
\* an acquisition after it.
C19_YearEndSnapshots ==
    pc = "done" =>
        \A k \in DOMAIN report.taxYears :
            LET s == report.taxYears[k]
            IN s.taxYear[1] \in 2017..2025 =>
                 /\ SnapshotIs(s.section104Start, report.allDisposals, report.acquisitions,
                               DaysFromCivil(s.taxYear[1], 4, 5))
                 /\ SnapshotIs(s.section104End, report.allDisposals, report.acquisitions,
                               DaysFromCivil(s.taxYear[1] + 1, 4, 5))

-----------------------------------------------------------------------------
(* C20 *)

\* c is the cost in pence of q shares of the acquisition given by the raw
\* record r of quantity Q: (base + fees * q / Q) / exchangeRate rounded to the
\* penny, base being totalAmount * q / Q when r has a totalAmount and
\* q * pricePerUnit otherwise
IsTrancheCost(c, r, Q, q) ==
    IsRounding(c,
               ((IF r.totalAmount # Null THEN r.totalAmount.v * q
                 ELSE q * r.pricePerUnit.v * Q) + r.fees.v * q) * 100,
               Q * r.exchangeRate.v)

\* C20: for every acquisition of the normalized list, of quantity Q, and every
\* q from 1 to Q, calculateCost gives the GBP cost of q of its shares:
\* round2((base + fees * q / Q) / exchangeRate), base being totalAmount * q / Q
\* when the record has a totalAmount (also when it has a price per unit) and
\* q * pricePerUnit otherwise; the cost of its entry in the acquisitions is
\* that of Q shares, and the cost of every same-day or bed-and-breakfast
\* tranche is that of the tranche's quantity, rounded by itself.
C20_TrancheCost ==
    pc \notin {"start", "threw"} =>
        /\ \A i \in DOMAIN txns :
             txns[i].type = "BUY" =>
                 \A q \in 1..txns[i].quantity :
                     IsTrancheCost(calculateCost(txns[i], q), raw[txns[i].id.index + 1],
                                   txns[i].quantity, q)
        /\ \A symbol \in {txns[i].symbol : i \in DOMAIN txns} :
             Len(OfSymbol(acquisitions, symbol)) > 0 =>
                 \A n \in 1..Cardinality(BuysOf(symbol)) :
                     \E i \in BuysOf(symbol) :
                         /\ Cardinality({j \in BuysOf(symbol) : j <= i}) = n
                         /\ IsTrancheCost(OfSymbol(acquisitions, symbol)[n].totalCost,
                                          raw[txns[i].id.index + 1], txns[i].quantity,
                                          txns[i].quantity)
        /\ \A e \in Range(cur.matchDetails)
                    \cup UNION {Range(disposals[j].matchDetails) : j \in DOMAIN disposals} :
             e.rule \in {"SAME_DAY", "BED_AND_BREAKFAST"} =>
                 \E i \in DOMAIN txns :
                     /\ txns[i].type = "BUY"
                     /\ txns[i].date = OrdinalOf(e.acquisitionDate)
                     /\ IsTrancheCost(e.cost, raw[txns[i].id.index + 1], txns[i].quantity,
                                      e.quantity)

\* a report on the purchase of 2 for a total of 10.01 (price per unit 10.00,
\* fees 0.50, 1.25 to the pound): 8.41 for the 2 shares, and 4.20 for the
\* share a sale of the same day took
C20_Witness ==
    /\ pc = "done"
    /\ \E j \in DOMAIN report.acquisitions :
         report.acquisitions[j].quantity = 2 /\ report.acquisitions[j].totalCost = 841
    /\ \E j \in DOMAIN report.allDisposals :
         /\ Len(report.allDisposals[j].matchDetails) = 1
         /\ report.allDisposals[j].matchDetails[1].rule = "SAME_DAY"
         /\ report.allDisposals[j].matchDetails[1].quantity = 1
         /\ report.allDisposals[j].matchDetails[1].cost = 420

-----------------------------------------------------------------------------
(* C21 *)

\* the average cost per share, in pence, of the Section 104 pool of the symbol
\* of a disposal once the acquisitions dated before the disposal that are
\* still unmatched are in it; 0 when it holds nothing
WouldBeAverage(ts, pool, disposal) ==
    LET earlier == {i \in 1..Len(ts) : /\ ts[i].type = "BUY"
                                       /\ ts[i].symbol = disposal.symbol
                                       /\ ts[i].date < disposal.date
                                       /\ ts[i].remainingQty > 0}
        quantity == pool.quantity + FnSum([i \in earlier |-> ts[i].remainingQty])
        cost == pool.cost + FnSum([i \in earlier |-> calculateCost(ts[i], ts[i].remainingQty)])
    IN IF quantity > 0 THEN RoundDiv(cost * lot, quantity) ELSE 0

\* C21: every BED_AND_BREAKFAST entry the bed-and-breakfast step adds has
\* s104CostPerShareWouldBe = the average cost per share of the pool formed from
\* the symbol's holdings acquired before the disposal date and still unmatched
\* (0 when there are none), its actual cost per share is the rounded cost per
\* share of the re-purchase, and costDifference is their difference.
C21_BnbImpact ==
    [][pc = "bnb" =>
        LET disposal == txns[Head(cur.sells)]
            old == Len(cur.matchDetails)
        IN \A k \in (old + 1)..Len(cur.matchDetails') :
               LET e == cur.matchDetails'[k]
               IN /\ e.rule = "BED_AND_BREAKFAST"
                  /\ e.s104CostPerShareWouldBe
                       = WouldBeAverage(txns, PoolOf(pools, disposal.symbol), disposal)
                  /\ IsRounding(e.costPerShare, e.cost, e.quantity)
                  /\ e.costDifference = e.costPerShare - e.s104CostPerShareWouldBe
    ]_vars

-----------------------------------------------------------------------------
(* C22 *)

\* C22: in the report every disposal is listed once in the summary of its
\* taxYear label and in no other summary, the numberOfDisposals of the
\* summaries sum to summary.totalDisposals, which is the length of
\* allDisposals, and summary.overallGain is the sum of the gains of all the
\* disposals, which is the sum of netGain over the summaries.
C22_PureAggregation ==
    pc = "done" =>
        LET ds == report.allDisposals
            ys == report.taxYears
        IN /\ \A j \in DOMAIN ds :
                \A k \in DOMAIN ys :
                    Cardinality({i \in DOMAIN ys[k].disposals : ys[k].disposals[i] = ds[j]})
                        = IF ys[k].taxYear = ds[j].taxYear THEN 1 ELSE 0
           /\ \A j \in DOMAIN ds :
                Cardinality({k \in DOMAIN ys : ys[k].taxYear = ds[j].taxYear}) = 1
           /\ \A k \in DOMAIN ys : ys[k].numberOfDisposals = Len(ys[k].disposals)
           /\ FnSum([k \in DOMAIN ys |-> ys[k].numberOfDisposals]) = report.summary.totalDisposals
           /\ report.summary.totalDisposals = Len(ds)
           /\ report.summary.overallGain = FnSum([j \in DOMAIN ds |-> ds[j].gain])
           /\ report.summary.overallGain = FnSum([k \in DOMAIN ys |-> ys[k].netGain])

\* a report of two disposals in two tax years, a gain of 2.00 in 2016/17 and a
\* loss of 3.00 in 2023/24: overall gain -1.00
C22_Witness ==
    /\ pc = "done"
    /\ Len(report.allDisposals) = 2
    /\ Len(report.taxYears) = 2
    /\ report.taxYears[1].taxYear = <<2023, 24>>
    /\ report.taxYears[1].netGain = 0 - 300
    /\ report.taxYears[2].netGain = 200
    /\ report.summary.overallGain = 0 - 100

-----------------------------------------------------------------------------
(* C23 *)

\* the disposals of a list dated before 30 October 2024 (side = "pre") or from
\* that day on ("post")
SideOf(ds, side) ==
    {j \in DOMAIN ds : (side = "pre") = (OrdinalOf(ds[j].date) < DaysFromCivil(2024, 10, 30))}

\* C23: the 2024/25 summary has a rateChange whose preOctober counts the
\* disposals of the year dated strictly before 2024-10-30 and sums their gains
\* and their losses, and whose postOctober does so for the others (a disposal
\* dated 30 October 2024 is post); the two disposalCounts sum to
\* numberOfDisposals and the pre and post gains (losses) to totalGains
\* (totalLosses).
C23_RateChangeSplit ==
    pc = "done" =>
        \A k \in DOMAIN report.taxYears :
            LET s == report.taxYears[k]
                ds == report.allDisposals
            IN s.taxYear = <<2024, 25>> =>
                 /\ s.rateChange # <<>>
                 /\ s.rateChange[1].preOctober.disposalCount
                      = Cardinality(SideOf(s.disposals, "pre"))
                 /\ s.rateChange[1].postOctober.disposalCount
                      = Cardinality(SideOf(s.disposals, "post"))
                 /\ s.rateChange[1].preOctober.gains = SideSum(ds, "pre", 1)
                 /\ s.rateChange[1].preOctober.losses = SideSum(ds, "pre", 0 - 1)
                 /\ s.rateChange[1].postOctober.gains = SideSum(ds, "post", 1)
                 /\ s.rateChange[1].postOctober.losses = SideSum(ds, "post", 0 - 1)
                 /\ s.rateChange[1].preOctober.disposalCount
                      + s.rateChange[1].postOctober.disposalCount = s.numberOfDisposals
                 /\ s.rateChange[1].preOctober.gains + s.rateChange[1].postOctober.gains
                      = s.totalGains
                 /\ s.rateChange[1].preOctober.losses + s.rateChange[1].postOctober.losses
                      = s.totalLosses

-----------------------------------------------------------------------------
(* C24 *)

\* the shares that the recorded disposals of a symbol have taken from its
\* acquisitions dated before day D: what they drew from the pool, and what they
\* matched directly against an acquisition dated before D
TakenBefore(ds, symbol, D) ==
    FnSum([j \in {j \in DOMAIN ds : ds[j].symbol = symbol} |->
        FnSum([k \in {k \in DOMAIN ds[j].matchDetails :
                         \/ ds[j].matchDetails[k].rule = "SECTION_104"
                         \/ OrdinalOf(ds[j].matchDetails[k].acquisitionDate) < D}
               |-> ds[j].matchDetails[k].quantity])])

\* C24: when a disposal dated D is about to draw from the Section 104 pool
\* (no earlier acquisition is left to roll in), the pool holds exactly the
\* shares of the acquisitions dated strictly before D that no disposal has
\* taken; every same-day or bed-and-breakfast match is with an acquisition
\* dated 0 to 30 days after its disposal; and a recorded disposal whose symbol
\* has only acquisitions dated 31 or more days after it has no match and an
\* UNMATCHED_DISPOSAL diagnostic for its full quantity.
C24_PoolHoldsEarlierShares ==
    /\ (pc = "s104" /\ ~\E i \in BuysOf(cur.symbol) :
                           /\ txns[i].date < txns[Head(cur.sells)].date
                           /\ txns[i].remainingQty > 0) =>
           PoolOf(pools, cur.symbol).quantity
             = FnSum([i \in {i \in BuysOf(cur.symbol) :
                                txns[i].date < txns[Head(cur.sells)].date}
                      |-> txns[i].quantity])
               - TakenBefore(disposals, cur.symbol, txns[Head(cur.sells)].date)
    /\ \A j \in DOMAIN disposals :
         LET d == disposals[j]
         IN /\ \A k \in DOMAIN d.matchDetails :
                 d.matchDetails[k].rule # "SECTION_104" =>
                     OrdinalOf(d.matchDetails[k].acquisitionDate) - OrdinalOf(d.date) \in 0..30
            /\ (\A i \in BuysOf(d.symbol) : txns[i].date - OrdinalOf(d.date) >= 31) =>
                 /\ d.matchDetails = <<>>
                 /\ \E e \in DOMAIN errors :
                      /\ errors[e].type = "UNMATCHED_DISPOSAL"
                      /\ errors[e].symbol = d.symbol
                      /\ errors[e].date = d.date
                      /\ errors[e].unmatchedQuantity = d.quantity

\* a report on a sale of 2 on 30 March and a purchase of 2 on 30 April, 31 days
\* later: the sale is unmatched for 2 and the purchase is in the final pool
C24_Witness ==
    /\ pc = "done"
    /\ Len(txns) = 2
    /\ Len(report.allDisposals) = 1
    /\ report.allDisposals[1].date = Iso(2024, 3, 30)
    /\ report.allDisposals[1].quantity = 2
    /\ report.allDisposals[1].matchDetails = <<>>
    /\ report.acquisitions[1].date = Iso(2024, 4, 30)
    /\ report.errors[1].unmatchedQuantity = 2
    /\ report.section104Pools[1].quantity = 2

-----------------------------------------------------------------------------
(* C25 *)

\* C25: in every tax-year summary of the report, that of 2024/25 included,
\* taxableGain = 0 implies estimatedTaxBasicRate = 0 and
\* estimatedTaxHigherRate = 0, also when the gains of the year are on one side
\* of 30 October 2024 and its losses on the other.
C25_NoTaxWithoutTaxableGain ==
    pc = "done" =>
        \A k \in DOMAIN report.taxYears :
            report.taxYears[k].taxableGain = 0 =>
                /\ report.taxYears[k].estimatedTaxBasicRate = 0
                /\ report.taxYears[k].estimatedTaxHigherRate = 0

-----------------------------------------------------------------------------
(* C26 *)

\* the quantity section104Pools lists for a symbol, 0 when it does not list it
ListedQuantity(listed, symbol) ==
    FnSum([k \in {k \in DOMAIN listed : listed[k].symbol = symbol} |-> listed[k].quantity])

\* C26: in the report, for every symbol, the quantities of its acquisitions
\* sum to the quantities of the SAME_DAY, BED_AND_BREAKFAST and SECTION_104
\* match details of its disposals plus the quantity section104Pools lists for
\* it (0 when the symbol is not listed).
C26_SharesConserved ==
    pc = "done" =>
        \A symbol \in {"XYZ", "ABC"} :
            FnSum([j \in {j \in DOMAIN report.acquisitions :
                             report.acquisitions[j].symbol = symbol}
                   |-> report.acquisitions[j].quantity])
              = FnSum([j \in {j \in DOMAIN report.allDisposals :
                                 report.allDisposals[j].symbol = symbol}
                       |-> MatchedQty(report.allDisposals[j])])
                + ListedQuantity(report.section104Pools, symbol)

-----------------------------------------------------------------------------
(* C27 *)

\* C27: every acquisition has 0 <= remainingQty <= quantity; remainingQty is
\* the quantity when normalization returns and never increases afterwards;
\* and every share that leaves a remainingQty is accounted for once: in a
\* same-day or bed-and-breakfast step by a match entry of that quantity and
\* acquisition date, in the Section 104 step by the pool, which takes the whole
\* of what an earlier acquisition has left; at the end of the stream the pool
\* takes, once per acquisition, what it has left.  So what is matched directly
\* against an acquisition plus what it gives the pool never exceeds its
\* quantity.
C27_NoShareUsedTwice ==
    /\ [](\A i \in DOMAIN txns :
             0 <= txns[i].remainingQty /\ txns[i].remainingQty <= txns[i].quantity)
    /\ [][pc = "start" =>
             \A i \in DOMAIN txns' : txns'[i].remainingQty = txns'[i].quantity]_vars
    /\ [][pc # "start" =>
            LET Taken(i) == txns[i].remainingQty - txns'[i].remainingQty
                takers == {i \in DOMAIN txns : Taken(i) # 0}
                taken == FnSum([i \in takers |-> Taken(i)])
                old == Len(cur.matchDetails)
                new == [k \in 1..(Len(cur.matchDetails') - old) |-> cur.matchDetails'[old + k]]
            IN /\ Len(txns') = Len(txns)
               /\ \A i \in DOMAIN txns : Taken(i) >= 0
               /\ takers \subseteq BuysOf(cur.symbol)
               /\ CASE pc \in {"sameDay", "bnb"} ->
                         /\ pools' = pools
                         /\ Len(new) = Cardinality(takers)
                         /\ taken = QtyUnder(new, {"SAME_DAY", "BED_AND_BREAKFAST"})
                         /\ \A i \in takers :
                              \E k \in DOMAIN new :
                                  /\ new[k].quantity = Taken(i)
                                  /\ OrdinalOf(new[k].acquisitionDate) = txns[i].date
                    [] pc = "s104" ->
                         /\ \A i \in takers : txns'[i].remainingQty = 0
                         /\ PoolOf(pools', cur.symbol).quantity + QtyUnder(new, {"SECTION_104"})
                              = PoolOf(pools, cur.symbol).quantity + taken
                    [] pc = "endOfStream" ->
                         /\ takers = {}
                         /\ IF cur.k <= Len(cur.buys)
                            THEN /\ PoolOf(pools', cur.symbol).quantity
                                      = PoolOf(pools, cur.symbol).quantity
                                          + txns[cur.buys[cur.k]].remainingQty
                                 /\ cur.k' = cur.k + 1
                            ELSE pools' = pools
                    [] OTHER ->
                         /\ takers = {}
                         /\ \A p \in DOMAIN pools : pools'[p] = pools[p]
       ]_vars

\* a purchase of 2 of which a sale of the same day took 1 and the pool, at the
\* end of the stream, the other
C27_Witness ==
    /\ pc = "done"
    /\ Len(txns) = 2
    /\ \E i \in DOMAIN txns :
         txns[i].type = "BUY" /\ txns[i].quantity = 2 /\ txns[i].remainingQty = 1
    /\ Len(disposals) = 1
    /\ Len(disposals[1].matchDetails) = 1
    /\ disposals[1].matchDetails[1].rule = "SAME_DAY"
    /\ disposals[1].matchDetails[1].quantity = 1
    /\ PoolOf(pools, "XYZ").quantity = 1

-----------------------------------------------------------------------------
(* C28 *)

\* C28: the proceeds of every disposal are round2((base - fees) /
\* exchangeRate) of its raw record, base being its totalAmount when it has one
\* and quantity * pricePerUnit otherwise, and the exchange rate 1 when the
\* record's is missing, zero or not numeric.
C28_NetProceeds ==
    \A j \in DOMAIN disposals :
        LET r == raw[disposals[j].id.index + 1]
            rate == IF r.exchangeRate.k = "num" /\ r.exchangeRate.v # 0
                    THEN r.exchangeRate.v ELSE 100
            base == IF r.totalAmount # Null THEN r.totalAmount.v
                    ELSE Abs(r.quantity.v) * r.pricePerUnit.v
        IN IsRounding(disposals[j].proceeds, (base - r.fees.v) * 100, rate)

\* a report on the sale for a total of 10.01 with fees of 0.50 at 1.25 to the
\* pound (proceeds 7.61), a sale at 12.00 whose exchange rate is 0 (12.00) and
\* one at 12.01 without an exchange rate (12.01)
C28_Witness ==
    /\ pc = "done"
    /\ Len(report.allDisposals) = 3
    /\ \E j \in DOMAIN report.allDisposals :
         /\ raw[report.allDisposals[j].id.index + 1].totalAmount = Num(1001)
         /\ report.allDisposals[j].proceeds = 761
    /\ \E j \in DOMAIN report.allDisposals :
         /\ raw[report.allDisposals[j].id.index + 1].exchangeRate = Num(0)
         /\ report.allDisposals[j].proceeds = 1200
    /\ \E j \in DOMAIN report.allDisposals :
         /\ raw[report.allDisposals[j].id.index + 1].exchangeRate = Null
         /\ report.allDisposals[j].proceeds = 1201

-----------------------------------------------------------------------------
(* C29 *)

\* C29: no step of calculate changes the list it was given or a record of it:
\* the decrements of remainingQty and the pool updates go to txns and pools.
C29_InputUntouched == [][raw' = raw]_vars

\* a finished run in which a buy was used up in matching (its remainingQty is
\* 0 in txns) and shares stay in a pool, while the raw record of that buy still
\* has its quantity
C29_Witness ==
    /\ pc = "done"
    /\ \E i \in DOMAIN txns :
         /\ txns[i].type = "BUY"
         /\ txns[i].remainingQty = 0
         /\ txns[i].quantity = 2
         /\ raw[txns[i].id.index + 1].quantity = Num(2)
    /\ \E i \in DOMAIN pools : pools[i].quantity > 0

-----------------------------------------------------------------------------
(* C30 *)

\* the entries of a list without their ids (an id holds the time of its call)
SansId(entries) ==
    [j \in DOMAIN entries |->
        [f \in DOMAIN entries[j] \ {"id"} |-> entries[j][f]]]

\* C30: every call of calculateCGT, the first or a later one, starts with no
\* transactions, pools, acquisitions, disposals or diagnostics; and when it has
\* returned for a list an earlier call was given, the disposals (their ids
\* apart), the Section 104 pools and the errors of its report are those of the
\* earlier call's report.
C30_NothingShared ==
    /\ pc = "start" =>
          /\ txns = <<>>
          /\ pools = <<>>
          /\ acquisitions = <<>>
          /\ disposals = <<>>
          /\ errors = <<>>
    /\ pc = "done" =>
          \A k \in DOMAIN prior :
              prior[k].raw = raw =>
                  /\ SansId(report.allDisposals) = SansId(prior[k].report.allDisposals)
                  /\ report.section104Pools = prior[k].report.section104Pools
                  /\ SansId(report.errors) = SansId(prior[k].report.errors)

\* a second call with the list of the first, whose report has a disposal, a
\* diagnostic and a pool that holds shares
C30_Witness ==
    /\ pc = "done"
    /\ Len(prior) = 1
    /\ prior[1].raw = raw
    /\ report.allDisposals # <<>>
    /\ report.errors # <<>>
    /\ \E i \in DOMAIN report.section104Pools : report.section104Pools[i].quantity > 0

====
